---- MODULE Spec2Model ----
(***************************************************************************)
(* Claims e-billing platform: invoice pipeline, supplier / carrier / admin *)
(* routes and the invoice, line and exception lifecycles.                  *)
(*                                                                         *)
(* Every route handler is one atomic action: it either commits its whole   *)
(* transaction or raises, in which case the request session is closed and  *)
(* nothing it wrote is kept.  Money is in cents, quantities in hundredths  *)
(* and rates in thousandths of a dollar.                                   *)
(***************************************************************************)
EXTENDS Integers, Sequences, FiniteSets, TLC

VARIABLES
    invoices,     \* Seq of Invoice rows; the id of a row is its index
    versions,     \* InvoiceVersion rows [invoice_id, version_number], in insertion order
    lines,        \* Seq of LineItem rows
    vresults,     \* Seq of ValidationResult rows
    exceptions,   \* Seq of ExceptionRecord rows
    rules,        \* Seq of MappingRule rows
    audit,        \* Seq of AuditEvent rows
    now,          \* store clock: number of requests that committed
    last,         \* the request handled last and its response
    inflight,     \* requests that have read their rows and not yet committed
    call          \* the last application of a service function and its result

store == <<invoices, versions, lines, vresults, exceptions, rules, audit>>
vars == <<invoices, versions, lines, vresults, exceptions, rules, audit, now, last,
          inflight, call>>

\* ── Bounds ──────────────────────────────────────────────────────────────────
MaxInvoices == 1
MaxOps == 4
\* requests in flight at once
MaxInflight == 2

NULL == "NULL"     \* None of a text or reference column
NONE == -1         \* None of a numeric column
\* expected_value of a finding: a dollar amount in cents, TEXT when the column
\* holds words that do not parse as an amount, NONE when it is empty
TEXT == -2
\* Decimal("NaN"): a parameter that converts and cannot be compared
NAN == -3

\* ── Lifecycle constants ─────────────────────────────────────────────────────
DRAFT == "DRAFT"
SUBMITTED == "SUBMITTED"
PROCESSING == "PROCESSING"
REVIEW_REQUIRED == "REVIEW_REQUIRED"
SUPPLIER_RESPONDED == "SUPPLIER_RESPONDED"
PENDING_CARRIER_REVIEW == "PENDING_CARRIER_REVIEW"
CARRIER_REVIEWING == "CARRIER_REVIEWING"
APPROVED == "APPROVED"
DISPUTED == "DISPUTED"
EXPORTED == "EXPORTED"
WITHDRAWN == "WITHDRAWN"

SubmissionStatus ==
    {DRAFT, SUBMITTED, PROCESSING, REVIEW_REQUIRED, SUPPLIER_RESPONDED,
     PENDING_CARRIER_REVIEW, CARRIER_REVIEWING, APPROVED, DISPUTED,
     EXPORTED, WITHDRAWN}

TERMINAL == {EXPORTED, WITHDRAWN}

\* LineItemStatus (no DENIED member is declared by the model class)
LineItemStatus ==
    {"PENDING", "CLASSIFIED", "VALIDATED", "EXCEPTION", "OVERRIDE",
     "APPROVED", "DISPUTED", "RESOLVED"}

ExceptionStatus ==
    {"OPEN", "SUPPLIER_RESPONDED", "CARRIER_REVIEWING", "RESOLVED", "WAIVED"}

\* ResolutionAction (no DENIED member is declared by the model class)
ResolutionAction ==
    {"REUPLOAD", "WAIVED", "HELD_CONTRACT_RATE", "RECLASSIFIED",
     "ACCEPTED_REDUCTION"}

\* ── Tenants, contracts and users (seeded reference data) ────────────────────
Suppliers == {"s1", "s2"}
Carriers == {"c1", "c2"}

Contracts ==
    [k1 |-> [supplier_id |-> "s1", carrier_id |-> "c1"],
     k2 |-> [supplier_id |-> "s2", carrier_id |-> "c2"]]

ContractIds == DOMAIN Contracts

Users ==
    [us1 |-> [role |-> "SUPPLIER", supplier_id |-> "s1", carrier_id |-> NULL],
     us2 |-> [role |-> "SUPPLIER", supplier_id |-> "s2", carrier_id |-> NULL],
     uc1 |-> [role |-> "CARRIER_ADMIN", supplier_id |-> NULL, carrier_id |-> "c1"],
     uc2 |-> [role |-> "CARRIER_ADMIN", supplier_id |-> NULL, carrier_id |-> "c2"]]

SupplierUsers == {u \in DOMAIN Users : Users[u].role = "SUPPLIER"}
CarrierAdmins == {u \in DOMAIN Users : Users[u].role = "CARRIER_ADMIN"}

\* ── Rate cards and guidelines of the contracts ──────────────────────────────
\* contracted_rate in thousandths of a dollar, max_units in hundredths
RateCards ==
    << [id |-> 1, contract_id |-> "k1", taxonomy_code |-> "IME.PHY_EXAM.PROF_FEE",
        contracted_rate |-> 600000, max_units |-> NONE, is_all_inclusive |-> FALSE,
        effective_from |-> 1, effective_to |-> NONE],
       [id |-> 2, contract_id |-> "k1", taxonomy_code |-> "IME.PHY_EXAM.TRAVEL_LODGING",
        contracted_rate |-> 200000, max_units |-> 100, is_all_inclusive |-> FALSE,
        effective_from |-> 1, effective_to |-> NONE],
       [id |-> 3, contract_id |-> "k1", taxonomy_code |-> "IME.PHY_EXAM.TRAVEL_TRANSPORT",
        contracted_rate |-> 500000, max_units |-> NONE, is_all_inclusive |-> FALSE,
        effective_from |-> 1, effective_to |-> NONE],
       [id |-> 4, contract_id |-> "k1", taxonomy_code |-> "IME.PHY_EXAM.PROF_FEE",
        contracted_rate |-> 550000, max_units |-> NONE, is_all_inclusive |-> FALSE,
        effective_from |-> 0, effective_to |-> 5],
       [id |-> 5, contract_id |-> "k2", taxonomy_code |-> "IME.PHY_EXAM.PROF_FEE",
        contracted_rate |-> 600000, max_units |-> NONE, is_all_inclusive |-> TRUE,
        effective_from |-> 1, effective_to |-> NONE],
       [id |-> 6, contract_id |-> "k2", taxonomy_code |-> "IME.PHY_EXAM.TRAVEL_LODGING",
        contracted_rate |-> 200000, max_units |-> NONE, is_all_inclusive |-> TRUE,
        effective_from |-> 1, effective_to |-> NONE] >>

\* date.today(), as a day number
Today == 10

\* max_amount in cents, max in hundredths
Guidelines ==
    << [id |-> 1, contract_id |-> "k1", taxonomy_code |-> "IME.PHY_EXAM.TRAVEL_TRANSPORT",
        domain |-> NULL, rule_type |-> "cap_amount", max_amount |-> 40000, max |-> NONE,
        severity |-> "ERROR", is_active |-> TRUE],
       [id |-> 2, contract_id |-> "k1", taxonomy_code |-> "IME.PHY_EXAM.TRAVEL_LODGING",
        domain |-> NULL, rule_type |-> "requires_auth", max_amount |-> NONE, max |-> NONE,
        severity |-> "WARNING", is_active |-> TRUE],
       [id |-> 3, contract_id |-> "k1", taxonomy_code |-> NULL,
        domain |-> "IME", rule_type |-> "max_units", max_amount |-> NONE, max |-> 500,
        severity |-> "ERROR", is_active |-> TRUE],
       [id |-> 4, contract_id |-> "k1", taxonomy_code |-> "IME.PHY_EXAM.PROF_FEE",
        domain |-> NULL, rule_type |-> "requires_auth", max_amount |-> NONE, max |-> NONE,
        severity |-> "WARNING", is_active |-> FALSE],
       \* guidelines on airfare whose parameters are malformed
       [id |-> 5, contract_id |-> "k1", taxonomy_code |-> "IME.PHY_EXAM.TRAVEL_TRANSPORT",
        domain |-> NULL,
        rule_type |-> "billing_increment", min_increment |-> 0,
        severity |-> "ERROR", is_active |-> TRUE],
       [id |-> 6, contract_id |-> "k1", taxonomy_code |-> "IME.PHY_EXAM.TRAVEL_TRANSPORT",
        domain |-> NULL,
        rule_type |-> "max_units", max |-> TEXT,
        severity |-> "ERROR", is_active |-> TRUE],
       [id |-> 7, contract_id |-> "k1", taxonomy_code |-> "IME.PHY_EXAM.TRAVEL_TRANSPORT",
        domain |-> NULL,
        rule_type |-> "surcharge", severity |-> "ERROR", is_active |-> TRUE],
       [id |-> 8, contract_id |-> "k1", taxonomy_code |-> "IME.PHY_EXAM.TRAVEL_TRANSPORT",
        domain |-> NULL,
        rule_type |-> "cap_amount", max_amount |-> NAN,
        severity |-> "ERROR", is_active |-> TRUE] >>

\* first dot-segment of a taxonomy code
DomainOf(code) ==
    CASE code \in {"IME.PHY_EXAM.PROF_FEE", "IME.PHY_EXAM.TRAVEL_LODGING",
                   "IME.PHY_EXAM.TRAVEL_TRANSPORT"} -> "IME"
      [] OTHER -> "ENG"

\* ── Sequence helpers ────────────────────────────────────────────────────────
Range(s) == {s[k] : k \in DOMAIN s}

\* ── Raw descriptions ────────────────────────────────────────────────────────
\* A description is its sequence of lower-cased words.
D_IME == <<"ime", "physician", "examination">>
D_NEURO == <<"ime", "physician", "examination", "neurology">>
D_XYZ == <<"xyzzy", "service">>
D_LODGE == <<"lodging">>
D_AIR == <<"airfare">>

\* keywords of the built-in table that occur inside a word ("kw in desc_lower")
KeywordsIn(word) ==
    CASE word = "examination" -> {"exam", "examination"}
      [] word \in {"ime", "physician", "lodging", "airfare", "hotel"} -> {word}
      [] OTHER -> {}

KeywordInDesc(kw, desc) == \E k \in DOMAIN desc : kw \in KeywordsIn(desc[k])

\* ── Built-in classification rules ───────────────────────────────────────────
\* weight in hundredths; the rows keep the order of the table
BUILTIN_RULES ==
    << [match_type |-> "keyword_set", pattern |-> <<"ime", "physician", "exam">>,
        taxonomy_code |-> "IME.PHY_EXAM.PROF_FEE", billing_component |-> "PROF_FEE",
        weight |-> 75],
       [match_type |-> "keyword_set", pattern |-> <<"ime", "examination">>,
        taxonomy_code |-> "IME.PHY_EXAM.PROF_FEE", billing_component |-> "PROF_FEE",
        weight |-> 72],
       [match_type |-> "regex_pattern", pattern |-> <<"\\bime\\b.*\\bexam">>,
        taxonomy_code |-> "IME.PHY_EXAM.PROF_FEE", billing_component |-> "PROF_FEE",
        weight |-> 78],
       [match_type |-> "keyword_set", pattern |-> <<"airfare">>,
        taxonomy_code |-> "IME.PHY_EXAM.TRAVEL_TRANSPORT",
        billing_component |-> "TRAVEL_TRANSPORT", weight |-> 65],
       [match_type |-> "keyword_set", pattern |-> <<"lodging">>,
        taxonomy_code |-> "IME.PHY_EXAM.TRAVEL_LODGING",
        billing_component |-> "TRAVEL_LODGING", weight |-> 60],
       [match_type |-> "keyword_set", pattern |-> <<"hotel">>,
        taxonomy_code |-> "IME.PHY_EXAM.TRAVEL_LODGING",
        billing_component |-> "TRAVEL_LODGING", weight |-> 58] >>

\* rx.search(desc_lower) for the regular expressions of the table
RegexSearch(pattern, desc) ==
    CASE pattern = <<"\\bime\\b.*\\bexam">> ->
            \E a, b \in DOMAIN desc :
                a < b /\ desc[a] = "ime" /\ "exam" \in KeywordsIn(desc[b])
      [] OTHER -> FALSE

BuiltinMatches(rule, desc) ==
    IF rule.match_type = "keyword_set"
    THEN \A k \in DOMAIN rule.pattern : KeywordInDesc(rule.pattern[k], desc)
    ELSE IF rule.match_type = "regex_pattern"
         THEN RegexSearch(rule.pattern, desc)
         ELSE FALSE

WeightLabel(weight) ==
    IF weight >= 85 THEN "HIGH" ELSE IF weight >= 65 THEN "MEDIUM" ELSE "LOW"

Unrecognized ==
    [taxonomy_code |-> NULL, billing_component |-> NULL, confidence |-> "UNRECOGNIZED",
     confidence_weight |-> 0, match_type |-> NULL, matched_rule_id |-> NONE]

\* the loop of classify_with_builtin_rules: a later rule replaces the best
\* one only when its weight is strictly greater
RECURSIVE BuiltinBest(_, _, _)
BuiltinBest(desc, k, best) ==
    IF k > Len(BUILTIN_RULES) THEN best
    ELSE LET rule == BUILTIN_RULES[k]
         IN  IF BuiltinMatches(rule, desc) /\ (best = << >> \/ rule.weight > best[1].weight)
             THEN BuiltinBest(desc, k + 1, <<rule>>)
             ELSE BuiltinBest(desc, k + 1, best)

classify_with_builtin_rules(desc) ==
    LET Labelled(best) ==
            IF best = << >> THEN Unrecognized
            ELSE [taxonomy_code |-> best[1].taxonomy_code,
                  billing_component |-> best[1].billing_component,
                  confidence |-> WeightLabel(best[1].weight),
                  confidence_weight |-> best[1].weight,
                  match_type |-> best[1].match_type,
                  matched_rule_id |-> NONE]
    IN  Labelled(BuiltinBest(desc, 1, << >>))

\* ── Persisted mapping rules ─────────────────────────────────────────────────
\* "kw in desc_lower" for a pattern that is a whole description: the words of
\* the pattern occur consecutively in the description
IsSubDesc(p, d) ==
    \E off \in 0..(Len(d) - Len(p)) : \A k \in DOMAIN p : d[off + k] = p[k]

\* Classifier._rule_matches.  An exact_code rule compares the supplier's code
\* with its pattern; a regex_pattern rule searches the description (the
\* patterns of the model are literal phrases); a keyword_set rule, as the
\* override route writes it, holds the raw description of the overridden
\* line as its one keyword
_rule_matches(rule, desc, code) ==
    CASE rule.match_type = "exact_code" -> code # NULL /\ code = rule.match_pattern
      [] rule.match_type = "regex_pattern" -> IsSubDesc(rule.match_pattern, desc)
      [] rule.match_type = "keyword_set" -> IsSubDesc(rule.match_pattern, desc)
      [] OTHER -> FALSE

\* rows the query of _classify_from_db returns, as indices into the table.
\* The filter is supplier_id IN (:supplier_id, NULL): for a row whose
\* supplier_id is NULL the comparison is unknown, so the row is not returned
CandidateRules(rs, supplier_id, t) ==
    {k \in DOMAIN rs :
        /\ (rs[k].effective_to = NONE \/ rs[k].effective_to > t)
        /\ rs[k].supplier_id # NULL
        /\ rs[k].supplier_id = supplier_id}

\* ORDER BY supplier_id IS NULL, confidence_weight DESC; rows that tie keep
\* their insertion order
RuleBefore(rs, a, b) ==
    LET ga == IF rs[a].supplier_id = NULL THEN 1 ELSE 0
        gb == IF rs[b].supplier_id = NULL THEN 1 ELSE 0
    IN  \/ ga < gb
        \/ ga = gb /\ rs[a].confidence_weight > rs[b].confidence_weight
        \/ ga = gb /\ rs[a].confidence_weight = rs[b].confidence_weight /\ a < b

\* the loop keeps the first row, in query order, of maximal weight
_classify_from_db(rs, desc, code, supplier_id, t) ==
    LET Best(matching) ==
            {k \in matching :
                \A j \in matching \ {k} :
                    \/ rs[k].confidence_weight > rs[j].confidence_weight
                    \/ /\ rs[k].confidence_weight = rs[j].confidence_weight
                       /\ RuleBefore(rs, k, j)}
        Row(k) ==
            [taxonomy_code |-> rs[k].taxonomy_code,
             billing_component |-> rs[k].billing_component,
             confidence |-> rs[k].confidence_label,
             confidence_weight |-> rs[k].confidence_weight,
             match_type |-> rs[k].match_type,
             matched_rule_id |-> k]
        Of(matching) ==
            IF matching = {} THEN << >>
            ELSE << Row(CHOOSE k \in Best(matching) : TRUE) >>
    IN  Of({k \in CandidateRules(rs, supplier_id, t) : _rule_matches(rs[k], desc, code)})

\* Classifier.classify: persisted rules first, then the built-in table
classify(rs, desc, code, supplier_id, t) ==
    LET Or(db_result) ==
            IF db_result # << >> THEN db_result[1]
            ELSE classify_with_builtin_rules(desc)
    IN  Or(_classify_from_db(rs, desc, code, supplier_id, t))

\* ── Rate validator ──────────────────────────────────────────────────────────
\* tolerance in cents
AMOUNT_TOLERANCE == 2


\* Decimal.quantize(Decimal("0.01")) of n / 10^3 cents, ROUND_HALF_EVEN
QuantizeCents(n) ==
    LET q == n \div 1000
        r == n % 1000
    IN  IF r * 2 > 1000 THEN q + 1
        ELSE IF r * 2 < 1000 THEN q
        ELSE IF q % 2 = 0 THEN q ELSE q + 1

Abs(x) == IF x < 0 THEN -x ELSE x

Finding(vtype, rid, gid, status, severity, expected, action) ==
    [validation_type |-> vtype, rate_card_id |-> rid, guideline_id |-> gid,
     status |-> status, severity |-> severity, expected_value |-> expected,
     required_action |-> action]

_find_rate_card(line, contract_id) ==
    LET service_date == IF line.service_date = NONE THEN Today ELSE line.service_date
        First(candidates) ==
            IF candidates = {} THEN << >>
            ELSE << RateCards[CHOOSE k \in candidates :
                        \A j \in candidates :
                            RateCards[j].effective_from <= RateCards[k].effective_from] >>
    IN  First({k \in DOMAIN RateCards :
                  /\ RateCards[k].contract_id = contract_id
                  /\ RateCards[k].taxonomy_code = line.taxonomy_code
                  /\ RateCards[k].effective_from <= service_date
                  /\ (RateCards[k].effective_to = NONE
                      \/ RateCards[k].effective_to >= service_date)})

\* an amount check whose PASS band is open: a difference of exactly the
\* tolerance is not accepted
_check_amount_strict(line, rate_card) ==
    LET Compare(expected, diff) ==
            Finding("RATE", rate_card.id, NONE,
                    IF Abs(diff) < AMOUNT_TOLERANCE THEN "PASS"
                    ELSE IF diff > 0 THEN "FAIL" ELSE "WARNING",
                    IF Abs(diff) < AMOUNT_TOLERANCE THEN "INFO"
                    ELSE IF diff > 0 THEN "ERROR" ELSE "WARNING",
                    expected,
                    IF diff >= AMOUNT_TOLERANCE THEN "ACCEPT_REDUCTION" ELSE "NONE")
            @@ [actual_value |-> line.raw_amount]
        Against(expected) == Compare(expected, line.raw_amount - expected)
    IN  Against(QuantizeCents(line.raw_quantity * rate_card.contracted_rate))

\* RateValidator._check_amount; the finding carries the billed amount as its
\* actual_value
_check_amount(line, rate_card) ==
    LET Billed(f) == f @@ [actual_value |-> line.raw_amount]
        Compare(expected, diff) ==
            IF Abs(diff) <= AMOUNT_TOLERANCE
            THEN Finding("RATE", rate_card.id, NONE, "PASS", "INFO", expected, "NONE")
            ELSE IF diff > AMOUNT_TOLERANCE
                 THEN Finding("RATE", rate_card.id, NONE, "FAIL", "ERROR", expected,
                              "ACCEPT_REDUCTION")
                 ELSE Finding("RATE", rate_card.id, NONE, "WARNING", "WARNING", expected,
                              "NONE")
        Against(expected) == Billed(Compare(expected, line.raw_amount - expected))
    IN  Against(QuantizeCents(line.raw_quantity * rate_card.contracted_rate))

_check_max_units(line, rate_card) ==
    IF line.raw_quantity > rate_card.max_units
    THEN Finding("RATE", rate_card.id, NONE, "FAIL", "ERROR", TEXT, "ACCEPT_REDUCTION")
    ELSE Finding("RATE", rate_card.id, NONE, "PASS", "INFO", NONE, "NONE")

travel_components == {"TRAVEL_TRANSPORT", "TRAVEL_LODGING", "TRAVEL_MEALS", "MILEAGE"}

_check_bundling(line, rate_card) ==
    IF line.billing_component \in travel_components
    THEN << Finding("RATE", rate_card.id, NONE, "FAIL", "ERROR", TEXT, "REUPLOAD") >>
    ELSE << >>

\* RateValidator.validate
RateValidate(line, contract_id) ==
    IF line.taxonomy_code = NULL
    THEN << Finding("RATE", NONE, NONE, "FAIL", "ERROR", NONE, "REQUEST_RECLASSIFICATION") >>
    ELSE LET Checks(rc) ==
                 IF rc = << >>
                 THEN << Finding("RATE", NONE, NONE, "FAIL", "ERROR", NONE,
                                 "REQUEST_RECLASSIFICATION") >>
                 ELSE << _check_amount(line, rc[1]) >>
                      \o (IF rc[1].max_units # NONE
                          THEN << _check_max_units(line, rc[1]) >> ELSE << >>)
                      \o (IF rc[1].is_all_inclusive
                          THEN _check_bundling(line, rc[1]) ELSE << >>)
         IN  Checks(_find_rate_card(line, contract_id))

\* ── Guideline validator ─────────────────────────────────────────────────────
_applies_to(g, line) ==
    IF g.taxonomy_code # NULL THEN g.taxonomy_code = line.taxonomy_code
    ELSE IF g.domain # NULL /\ line.taxonomy_code # NULL
         THEN g.domain = DomainOf(line.taxonomy_code)
         ELSE TRUE

\* a dispatch without the handler of exceptions: a rule handler that raises
\* leaves no finding
_evaluate_unguarded(g, line) ==
    CASE g.rule_type = "max_units" /\ g.max \notin {NONE, TEXT, NAN} /\ line.raw_quantity > g.max ->
            << Finding("GUIDELINE", NONE, g.id, "FAIL", g.severity, TEXT, "ACCEPT_REDUCTION") >>
      [] g.rule_type = "requires_auth" ->
            << Finding("GUIDELINE", NONE, g.id, "WARNING", "WARNING", NONE, "ATTACH_DOC") >>
      [] g.rule_type = "cap_amount" /\ g.max_amount \notin {NONE, TEXT, NAN}
                                    /\ line.raw_amount > g.max_amount ->
            << Finding("GUIDELINE", NONE, g.id, "FAIL", g.severity, TEXT, "ACCEPT_REDUCTION") >>
      [] OTHER -> << >>

\* GuidelineValidator._evaluate: the finding of one guideline, or none on PASS.
\* A parameter is a number, NONE when the key is missing, TEXT when Decimal()
\* rejects it (the handler returns no finding) or NAN when it converts and
\* the comparison raises; an exception of a handler becomes a WARNING finding
_evaluate(g, line) ==
    LET Errored ==
            << Finding("GUIDELINE", NONE, g.id, "WARNING", "WARNING", NONE, "NONE") >>
    IN  CASE g.rule_type = "max_units" ->
            IF g.max \in {NONE, TEXT} THEN << >>
            ELSE IF g.max = NAN THEN Errored
            ELSE IF line.raw_quantity > g.max
                 THEN << Finding("GUIDELINE", NONE, g.id, "FAIL", g.severity, TEXT,
                                 IF g.severity = "ERROR" THEN "ACCEPT_REDUCTION" ELSE "NONE") >>
                 ELSE << >>
      [] g.rule_type = "requires_auth" ->
            << Finding("GUIDELINE", NONE, g.id, "WARNING", "WARNING", NONE, "ATTACH_DOC") >>
      [] g.rule_type = "billing_increment" ->
            IF g.min_increment \in {NONE, TEXT} THEN << >>
            \* qty % 0 and the comparison of a NaN remainder raise
            ELSE IF g.min_increment \in {0, NAN} THEN Errored
            ELSE IF line.raw_quantity % g.min_increment > 0
                 THEN << Finding("GUIDELINE", NONE, g.id, "FAIL", g.severity, TEXT,
                                 "REUPLOAD") >>
                 ELSE << >>
      [] g.rule_type = "bundling_prohibition" ->
            \* "in" on a value that is no container raises
            IF g.prohibited_components = NAN THEN Errored
            ELSE IF line.billing_component \in g.prohibited_components
                 THEN << Finding("GUIDELINE", NONE, g.id, "FAIL", g.severity, TEXT,
                                 "REUPLOAD") >>
                 ELSE << >>
      [] g.rule_type = "cap_amount" ->
            IF g.max_amount \in {NONE, TEXT} THEN << >>
            ELSE IF g.max_amount = NAN THEN Errored
            ELSE IF line.raw_amount > g.max_amount
                 THEN << Finding("GUIDELINE", NONE, g.id, "FAIL", g.severity, TEXT,
                                 "ACCEPT_REDUCTION") >>
                 ELSE << >>
      [] OTHER -> << >>

RECURSIVE GuidelineValidate(_, _, _)
GuidelineValidate(line, gs, k) ==
    IF k > Len(gs) THEN << >>
    ELSE (IF _applies_to(gs[k], line) THEN _evaluate(gs[k], line) ELSE << >>)
         \o GuidelineValidate(line, gs, k + 1)

\* contract.guidelines filtered on is_active, in table order
ActiveGuidelines(contract_id) ==
    SelectSeq(Guidelines, LAMBDA g : g.contract_id = contract_id /\ g.is_active)

\* ── Uploaded files ──────────────────────────────────────────────────────────
RawItem(n, desc, amount, quantity) ==
    [line_number |-> n, raw_description |-> desc, raw_amount |-> amount,
     raw_quantity |-> quantity, service_date |-> NONE,
     \* _get_str(row, col_map, "code"): the files carry no code column
     raw_code |-> NULL]

\* a file is its extension and, for a CSV, the canonical fields its header
\* maps to and its data rows (an empty cell is << >> or NONE)
ALL_COLUMNS == {"description", "amount", "quantity"}
Csv(columns, rows) == [ext |-> "csv", columns |-> columns, rows |-> rows]
\* one line billed under the contracted amount: a WARNING finding only
F_UNDER == Csv(ALL_COLUMNS, << RawItem(1, D_IME, 59000, 100) >>)
\* no rule recognises the description
F_UNREC == Csv(ALL_COLUMNS, << RawItem(1, D_XYZ, 99999, 100) >>)
\* one line billed over the contracted amount
F_OVER == Csv(ALL_COLUMNS, << RawItem(1, D_NEURO, 72500, 100) >>)
\* a line that only draws a warning, and an airfare line over the guideline cap
F_MIX == Csv(ALL_COLUMNS, << RawItem(1, D_IME, 59000, 100),
                             RawItem(2, D_AIR, 50000, 100) >>)
\* a header and no data rows
F_EMPTY == Csv(ALL_COLUMNS, << >>)
\* no column of the header maps to "description"
F_NODESC == Csv({"amount", "quantity"}, << RawItem(1, << >>, 59000, 100) >>)
\* no column of the header maps to "amount"
F_NOAMT == Csv({"description", "quantity"}, << RawItem(1, D_IME, NONE, 100) >>)
F_PDF == [ext |-> "pdf", columns |-> {}, rows |-> << >>]
F_XLSX == [ext |-> "xlsx", columns |-> {}, rows |-> << >>]

Files == {F_UNDER, F_UNREC, F_OVER, F_MIX, F_EMPTY, F_NODESC, F_NOAMT, F_PDF, F_XLSX}

\* detect_format: the format, or NULL when it raises ParseError
detect_format(file) ==
    IF file.ext \in {"csv", "tsv"} THEN "csv"
    ELSE IF file.ext = "pdf" THEN "pdf"
    ELSE NULL

\* "(no description - row N)": what a row without a description is given
D_PLACEHOLDER == <<"no", "description", "row">>

\* _get_decimal(row, col_map, "amount"): TRUE when it raises ParseError
AmountMissing(file, row) == "amount" \notin file.columns \/ row.raw_amount = NONE

\* the RawLineItem built from one data row
RawLineItem(file, row) ==
    [row EXCEPT !.raw_description =
                    IF "description" \in file.columns /\ @ # << >> THEN @ ELSE D_PLACEHOLDER,
                !.raw_quantity =
                    IF "quantity" \in file.columns /\ @ # NONE THEN @ ELSE 100]

\* CSVParser.parse: the line items of the rows it does not skip; none when
\* it raises ParseError ("contains no data rows", "No valid line items")
CSVParser_parse(file) ==
    LET Kept(rows) == [k \in DOMAIN rows |-> RawLineItem(file, rows[k])]
    IN  Kept(SelectSeq(file.rows, LAMBDA row : ~AmountMissing(file, row)))

\* get_parser(format).parse: the raw line items, or no result when the parser
\* raises ParseError or NotImplementedError (PDF)
ParseOk(file) == detect_format(file) = "csv" /\ CSVParser_parse(file) # << >>

\* ── Audit log ───────────────────────────────────────────────────────────────
\* the row log_event builds; created_at is left to the server default, the
\* time of the transaction
AuditRow(d, entity_type, entity_id, event_type, actor_type, actor_id, payload) ==
    [entity_type |-> entity_type, entity_id |-> entity_id,
     event_type |-> event_type, actor_type |-> actor_type,
     actor_id |-> actor_id, payload |-> payload, created_at |-> d.t]

\* a log that keeps one row per entity: a later event overwrites the row
log_event_upsert(d, entity_type, entity_id, event_type, actor_type, actor_id, payload) ==
    LET Same(k) == /\ d.audit[k].entity_type = entity_type
                   /\ d.audit[k].entity_id = entity_id
        Row == AuditRow(d, entity_type, entity_id, event_type, actor_type, actor_id,
                        payload)
    IN  IF \E k \in DOMAIN d.audit : Same(k)
        THEN [d EXCEPT !.audit = [k \in DOMAIN @ |-> IF Same(k) THEN Row ELSE @[k]]]
        ELSE [d EXCEPT !.audit = Append(@, Row)]

\* log_event: appends one row
log_event(d, entity_type, entity_id, event_type, actor_type, actor_id, payload) ==
    [d EXCEPT !.audit = Append(@,
        AuditRow(d, entity_type, entity_id, event_type, actor_type, actor_id, payload))]

NoPayload == [from_status |-> NULL, to_status |-> NULL, notes |-> NULL]

log_invoice_status_changed(d, i, from, to, actor_type, actor_id) ==
    log_event(d, "invoice", i, "invoice.status_changed", actor_type, actor_id,
              [from_status |-> from, to_status |-> to, notes |-> NULL])

\* ── The session of one request ──────────────────────────────────────────────
\* rows as the handler sees and writes them; trans records every assignment
\* to Invoice.status made through the session
Session ==
    [invoices |-> invoices, versions |-> versions, lines |-> lines,
     vresults |-> vresults, exceptions |-> exceptions, rules |-> rules,
     audit |-> audit, t |-> now, trans |-> << >>]

SetStatus(d, i, to) ==
    [d EXCEPT !.invoices[i].status = to,
              !.trans = Append(@, <<d.invoices[i].status, to>>)]

\* ── Invoice pipeline ────────────────────────────────────────────────────────
\* _fail_invoice: REVIEW_REQUIRED, committed, without an audit row
_fail_invoice(d, i) == SetStatus(d, i, REVIEW_REQUIRED)

NewException(line_id, vr_id) ==
    [line_item_id |-> line_id, validation_result_id |-> vr_id, status |-> "OPEN",
     supplier_response |-> NULL, resolution_action |-> NULL,
     resolution_notes |-> NULL, resolved_at |-> NONE, resolved_by_user_id |-> NULL]

NewValidationResult(line_id, f) ==
    [line_item_id |-> line_id, validation_type |-> f.validation_type,
     rate_card_id |-> f.rate_card_id, guideline_id |-> f.guideline_id,
     status |-> f.status, severity |-> f.severity,
     expected_value |-> f.expected_value, required_action |-> f.required_action]

\* a finding of any status opens an exception
OpensExceptionAlways(f) == TRUE

\* "if rate_result.status == ValidationStatus.FAIL", and the same test on a
\* guideline finding
OpensException(f) == f.status = "FAIL"

\* one ValidationResult per finding; a FAIL also opens an ExceptionRecord and
\* writes exception.opened.  acc = [d, errors, warnings, expected]
RECURSIVE PersistFindings(_, _, _, _, _)
PersistFindings(acc, line_id, findings, k, is_rate) ==
    IF k > Len(findings) THEN acc
    ELSE LET f == findings[k]
             \* d1: the session after the flush of the ValidationResult
             Opened(d1) ==
                 IF OpensException(f)
                 THEN log_event(
                          [d1 EXCEPT !.exceptions =
                               Append(@, NewException(line_id, Len(d1.vresults)))],
                          "line_item", line_id, "exception.opened", "SYSTEM", NULL,
                          NoPayload)
                 ELSE d1
             Counted(d2) ==
                 [d |-> d2,
                  errors |-> acc.errors + (IF f.status = "FAIL" THEN 1 ELSE 0),
                  warnings |-> acc.warnings + (IF f.status = "WARNING" THEN 1 ELSE 0),
                  expected |-> IF is_rate /\ f.status = "FAIL" /\ f.expected_value >= 0
                               THEN f.expected_value ELSE acc.expected]
         IN  PersistFindings(
                 Counted(Opened([acc.d EXCEPT !.vresults =
                                     Append(@, NewValidationResult(line_id, f))])),
                 line_id, findings, k + 1, is_rate)

NewLineItem(inv_id, version, raw_item) ==
    [invoice_id |-> inv_id, invoice_version |-> version,
     line_number |-> raw_item.line_number, status |-> "PENDING",
     raw_description |-> raw_item.raw_description,
     raw_amount |-> raw_item.raw_amount, raw_quantity |-> raw_item.raw_quantity,
     service_date |-> raw_item.service_date,
     taxonomy_code |-> NULL, billing_component |-> NULL,
     mapping_confidence |-> NULL, mapping_rule_id |-> NONE,
     expected_amount |-> NONE]

\* the version the invoice had before its last increment
VersionBeforeRun(inv) == inv.current_version - 1

\* "invoice_version=invoice.current_version": the version a run files its
\* line items under
VersionOfRun(inv) == inv.current_version

\* _process_line: [d, errors]; cls_raises says whether classification raised
_process_line(d, raw_item, i, cls_raises) ==
    LET inv == d.invoices[i]
        id == Len(d.lines) + 1
        d0 == [d EXCEPT !.lines = Append(@, NewLineItem(i, VersionOfRun(inv), raw_item))]
        \* UNRECOGNIZED: a CLASSIFICATION finding with its exception
        Unrecognised(d2) ==
            [d |-> [d2 EXCEPT !.exceptions =
                                  Append(@, NewException(id, Len(d2.vresults))),
                              !.lines[id].status = "EXCEPTION"],
             errors |-> 1]
        \* the final status of the line
        Settle(g) ==
            [d |-> [g.d EXCEPT !.lines[id].status =
                                   IF g.errors > 0 THEN "EXCEPTION" ELSE "VALIDATED",
                               !.lines[id].expected_amount = g.expected],
             errors |-> g.errors]
        \* rate findings, then guideline findings
        Validate(d1, line) ==
            Settle(PersistFindings(
                       PersistFindings(
                           [d |-> d1, errors |-> 0, warnings |-> 0,
                            expected |-> raw_item.raw_amount],
                           id, RateValidate(line, inv.contract_id), 1, TRUE),
                       id, GuidelineValidate(line, ActiveGuidelines(inv.contract_id), 1),
                       1, FALSE))
        Branch(d1, result) ==
            IF result.confidence = "UNRECOGNIZED"
            THEN Unrecognised([d1 EXCEPT !.vresults = Append(@,
                                   NewValidationResult(id,
                                       Finding("CLASSIFICATION", NONE, NONE, "FAIL", "ERROR",
                                               NONE, "REQUEST_RECLASSIFICATION")))])
            ELSE Validate(d1, d1.lines[id])
        Classified(result) ==
            Branch(log_event(
                       [d0 EXCEPT !.lines[id].taxonomy_code = result.taxonomy_code,
                                  !.lines[id].billing_component = result.billing_component,
                                  !.lines[id].mapping_confidence =
                                      IF result.confidence # "UNRECOGNIZED"
                                      THEN result.confidence ELSE "LOW",
                                  !.lines[id].mapping_rule_id = result.matched_rule_id,
                                  !.lines[id].status = "CLASSIFIED"],
                       "line_item", id, "line_item.classified", "SYSTEM", NULL, NoPayload),
                   result)
    IN  IF cls_raises
        THEN [d |-> [d0 EXCEPT !.lines[id].status = "EXCEPTION"], errors |-> 1]
        ELSE Classified(classify(d.rules, raw_item.raw_description, raw_item.raw_code,
                                 inv.supplier_id, d.t))

\* the loop of _run_pipeline over the parsed rows; acc = [d, errors]
RECURSIVE ProcessLines(_, _, _, _, _)
ProcessLines(acc, rows, k, i, raising) ==
    IF k > Len(rows) THEN acc
    ELSE LET Add(r) == [d |-> r.d, errors |-> acc.errors + r.errors]
         IN  ProcessLines(Add(_process_line(acc.d, rows[k], i, k \in raising)),
                          rows, k + 1, i, raising)

\* _run_pipeline: lines, findings, exceptions, then the final invoice status
_run_pipeline(d, i, rows, raising) ==
    LET Decide(p, new_status) ==
            log_invoice_status_changed(SetStatus(p.d, i, new_status), i,
                                       p.d.invoices[i].status, new_status, "SYSTEM", NULL)
        Conclude(p) ==
            Decide(p, IF p.errors > 0 THEN REVIEW_REQUIRED ELSE PENDING_CARRIER_REVIEW)
    IN  Conclude(ProcessLines([d |-> d, errors |-> 0], rows, 1, i, raising))

\* the body shared by process_invoice_sync and process_invoice, from the
\* transition to PROCESSING to the commit
PipelineBody(d, i, file, raising) ==
    LET old_status == d.invoices[i].status
        d1 == log_invoice_status_changed(SetStatus(d, i, PROCESSING), i,
                                         old_status, PROCESSING, "SYSTEM", NULL)
    IN  IF ~ParseOk(file) THEN _fail_invoice(d1, i)
        ELSE _run_pipeline(d1, i, CSVParser_parse(file), raising)

\* ── Requests and responses ──────────────────────────────────────────────────
\* A handler run on a session yields [d, resp, commits]: the session as last
\* committed, the response, and the number of commits it made.
\* resp: "ok" (2xx), "conflict" (409), "denied" (403), "invalid" (422),
\* "error" (an unhandled exception: 500, what was not committed is discarded)
Result(d, resp, commits) == [d |-> d, resp |-> resp, commits |-> commits]

\* HTTPException or an unhandled exception before any commit: get_db closes
\* the session and nothing of it is kept
Raise(d, resp) == Result(d, resp, 0)

Request(op, actor, inv, exc, line, resp, trans) ==
    [op |-> op, actor |-> actor, inv |-> inv, exc |-> exc, line |-> line,
     resp |-> resp, trans |-> trans]

\* db.commit(): the rows of the session become the rows of the store
Commit(d) ==
    /\ invoices' = d.invoices
    /\ versions' = d.versions
    /\ lines' = d.lines
    /\ vresults' = d.vresults
    /\ exceptions' = d.exceptions
    /\ rules' = d.rules
    /\ audit' = d.audit
    /\ now' = d.t + 1

\* the effect of one request on the store; last keeps the request that
\* committed last
Handle(op, actor, inv, exc, line, r) ==
    /\ now < MaxOps
    /\ IF r.commits = 0 THEN UNCHANGED vars
       ELSE /\ Commit(r.d)
            /\ last' = Request(op, actor, inv, exc, line, r.resp, r.d.trans)
            /\ UNCHANGED <<inflight, call>>

Init ==
    /\ invoices = << >>
    /\ versions = << >>
    /\ lines = << >>
    /\ vresults = << >>
    /\ exceptions = << >>
    /\ rules = << >>
    /\ audit = << >>
    /\ now = 0
    /\ last = Request("init", NULL, 0, 0, 0, "ok", << >>)
    /\ inflight = << >>
    /\ call = << >>

\* ── Supplier routes ─────────────────────────────────────────────────────────
\* POST /supplier/invoices: the invoice and its invoice.created event are
\* committed one after the other
create_invoice(d, u, c) ==
    LET id == Len(d.invoices) + 1
        d1 == [d EXCEPT !.invoices = Append(@,
                 [supplier_id |-> Users[u].supplier_id, contract_id |-> c,
                  status |-> DRAFT, current_version |-> 1,
                  raw_file_path |-> << >>])]
        d2 == log_event(d1, "invoice", id, "invoice.created", "SUPPLIER", u,
                        [NoPayload EXCEPT !.to_status = DRAFT])
    IN  Result(d2, "ok", 2)

InvoiceVersion(i, n) == [invoice_id |-> i, version_number |-> n]

\* the table accepts any row
NoUniqueConstraint(vs, i, n) == FALSE

\* UniqueConstraint("invoice_id", "version_number"): TRUE when the table vs
\* holds a row of invoice i with number n, so that the flush of another one
\* raises IntegrityError
uq_invoice_version(vs, i, n) ==
    \E k \in DOMAIN vs : vs[k].invoice_id = i /\ vs[k].version_number = n

\* process_invoice_sync(invoice_id, file_bytes, filename, db) on the caller's
\* session; an unhandled error is rolled back and raised again
process_invoice_sync(d, i, file, raising, crash) ==
    IF crash THEN Raise(d, "error")
    ELSE Result(PipelineBody(d, i, file, raising), "ok", 1)

\* POST /supplier/invoices/{id}/upload on session d; committed is the session
\* as the store has it (resubmit hands over a session it has written to)
upload_invoice_file(d, committed, u, i, file, raising, crash) ==
    LET inv == d.invoices[i]
    IN  IF inv.supplier_id # Users[u].supplier_id THEN Raise(committed, "denied")
        ELSE IF inv.status \notin {DRAFT, REVIEW_REQUIRED} THEN Raise(committed, "conflict")
        ELSE IF detect_format(file) = NULL THEN Raise(committed, "invalid")
        \* uq_invoice_version: the flush raises IntegrityError
        ELSE IF uq_invoice_version(d.versions, i, inv.current_version)
        THEN Raise(committed, "error")
        ELSE
        LET d1 == SetStatus([d EXCEPT !.invoices[i].raw_file_path = <<file>>],
                            i, SUBMITTED)
            d2 == log_event([d1 EXCEPT !.versions =
                                Append(@, InvoiceVersion(i, inv.current_version))],
                            "invoice", i, "invoice.submitted", "SUPPLIER", u,
                            [NoPayload EXCEPT !.to_status = SUBMITTED])
            \* process_invoice_sync, after the commit of the submission
            Processed(r) == Result(r.d, r.resp, 1 + r.commits)
        IN  Processed(process_invoice_sync(d2, i, file, raising, crash))

\* POST /supplier/invoices/{id}/resubmit: bumps current_version, then
\* delegates to upload_invoice_file on the same session
resubmit_invoice(d, u, i, file, raising, crash) ==
    LET inv == d.invoices[i]
    IN  IF inv.supplier_id # Users[u].supplier_id THEN Raise(d, "denied")
        ELSE IF inv.status \notin {REVIEW_REQUIRED, SUPPLIER_RESPONDED}
        THEN Raise(d, "conflict")
        ELSE upload_invoice_file([d EXCEPT !.invoices[i].current_version = @ + 1],
                                 d, u, i, file, raising, crash)

\* a response that moves the invoice to SUPPLIER_RESPONDED from any status
respond_to_exception_flipping(d, u, e, text) ==
    LET exc == d.exceptions[e]
        i == d.lines[exc.line_item_id].invoice_id
        inv == d.invoices[i]
    IN  IF inv.supplier_id # Users[u].supplier_id THEN Raise(d, "denied")
        ELSE IF exc.status # "OPEN" THEN Raise(d, "conflict")
        ELSE Result(log_event(SetStatus([d EXCEPT !.exceptions[e].supplier_response = text,
                                                  !.exceptions[e].status =
                                                      "SUPPLIER_RESPONDED"],
                                        i, SUPPLIER_RESPONDED),
                              "exception", e, "exception.supplier_responded",
                              "SUPPLIER", u, NoPayload),
                    "ok", 1)

\* POST /supplier/exceptions/{id}/respond
respond_to_exception(d, u, e, text) ==
    LET exc == d.exceptions[e]
        i == d.lines[exc.line_item_id].invoice_id
        inv == d.invoices[i]
    IN  IF inv.supplier_id # Users[u].supplier_id THEN Raise(d, "denied")
        ELSE IF exc.status # "OPEN" THEN Raise(d, "conflict")
        ELSE LET d1 == [d EXCEPT !.exceptions[e].supplier_response = text,
                                 !.exceptions[e].status = "SUPPLIER_RESPONDED"]
                 d2 == IF inv.status = REVIEW_REQUIRED
                       THEN SetStatus(d1, i, SUPPLIER_RESPONDED) ELSE d1
             IN  Result(log_event(d2, "exception", e, "exception.supplier_responded",
                                  "SUPPLIER", u, NoPayload),
                        "ok", 1)

\* ── Background job ──────────────────────────────────────────────────────────
\* a worker whose handler of an unhandled error finds the invoice in
\* PROCESSING and commits it as SUBMITTED
process_invoice_compensating(d, i, raising, crash) ==
    IF crash THEN Result(SetStatus(d, i, SUBMITTED), "error", 1)
    ELSE Result(PipelineBody(d, i, d.invoices[i].raw_file_path[1], raising), "ok", 1)

\* process_invoice(invoice_id): the queue worker's entry point.  It reads the
\* file through invoice.raw_file_path; no status is required of the invoice.
process_invoice(d, i, raising, crash) ==
    LET inv == d.invoices[i]
        d1 == log_invoice_status_changed(SetStatus(d, i, PROCESSING), i,
                                         inv.status, PROCESSING, "SYSTEM", NULL)
    IN  \* rollback; the persisted status is not PROCESSING, so the
        \* compensation to SUBMITTED does not apply
        IF crash THEN Raise(d, "error")
        \* storage.load fails: "Could not load invoice file"
        ELSE IF inv.raw_file_path = << >> THEN Result(_fail_invoice(d1, i), "ok", 1)
        ELSE IF ~ParseOk(inv.raw_file_path[1]) THEN Result(_fail_invoice(d1, i), "ok", 1)
        ELSE Result(_run_pipeline(d1, i, CSVParser_parse(inv.raw_file_path[1]), raising),
                    "ok", 1)

\* ── Carrier routes ──────────────────────────────────────────────────────────
\* _get_carrier_invoice: TRUE when it raises 403
_get_carrier_invoice(d, i, u) ==
    Contracts[d.invoices[i].contract_id].carrier_id # Users[u].carrier_id

log_exception_resolved(d, e, u) ==
    log_event(d, "exception", e, "exception.resolved", "CARRIER", u,
              [NoPayload EXCEPT !.notes = d.exceptions[e].resolution_notes])

\* the loop of approve_carrier_invoice over the exceptions of the invoice
RECURSIVE WaiveOpen(_, _, _, _, _)
WaiveOpen(d, i, u, notes, e) ==
    IF e > Len(d.exceptions) THEN d
    ELSE LET exc == d.exceptions[e]
             d1 == IF d.lines[exc.line_item_id].invoice_id = i /\ exc.status = "OPEN"
                   THEN log_exception_resolved(
                            [d EXCEPT !.exceptions[e].status = "WAIVED",
                                      !.exceptions[e].resolution_action = "WAIVED",
                                      !.exceptions[e].resolution_notes = notes,
                                      !.exceptions[e].resolved_at = d.t,
                                      !.exceptions[e].resolved_by_user_id = u],
                            e, u)
                   ELSE d
         IN  WaiveOpen(d1, i, u, notes, e + 1)

\* an approval that also settles the payable amount of the lines it approves
\* at their billed amount
ApproveLinesRepriced(d, i, statuses, ids) ==
    [d EXCEPT !.lines =
        [k \in DOMAIN d.lines |->
            IF /\ d.lines[k].invoice_id = i
               /\ (ids = {} \/ k \in ids)
               /\ d.lines[k].status \in statuses
            THEN [d.lines[k] EXCEPT !.status = "APPROVED",
                                    !.expected_amount = d.lines[k].raw_amount]
            ELSE d.lines[k]]]

\* every line of the invoice that is in one of the statuses (and, when ids is
\* not empty, is one of ids) becomes APPROVED
ApproveLines(d, i, statuses, ids) ==
    [d EXCEPT !.lines =
        [k \in DOMAIN d.lines |->
            IF /\ d.lines[k].invoice_id = i
               /\ (ids = {} \/ k \in ids)
               /\ d.lines[k].status \in statuses
            THEN [d.lines[k] EXCEPT !.status = "APPROVED"]
            ELSE d.lines[k]]]

\* POST /carrier/invoices/{id}/approve
approve_carrier_invoice(d, u, i, notes) ==
    LET inv == d.invoices[i]
    IN  IF _get_carrier_invoice(d, i, u) THEN Raise(d, "denied")
        ELSE IF inv.status \notin {PENDING_CARRIER_REVIEW, CARRIER_REVIEWING}
        THEN Raise(d, "conflict")
        ELSE LET d1 == WaiveOpen(d, i, u, notes, 1)
                 d2 == ApproveLines(d1, i,
                           {"VALIDATED", "OVERRIDE", "RESOLVED", "EXCEPTION"}, {})
             IN  Result(log_invoice_status_changed(SetStatus(d2, i, APPROVED), i,
                            inv.status, APPROVED, "CARRIER", u),
                        "ok", 1)

\* request-changes without its invoice.changes_requested event: the notes
\* are kept nowhere
request_invoice_changes_unlogged(d, u, i, notes) ==
    LET inv == d.invoices[i]
    IN  IF _get_carrier_invoice(d, i, u) THEN Raise(d, "denied")
        ELSE IF inv.status # PENDING_CARRIER_REVIEW THEN Raise(d, "conflict")
        ELSE Result(log_invoice_status_changed(SetStatus(d, i, REVIEW_REQUIRED), i,
                                               inv.status, REVIEW_REQUIRED, "CARRIER", u),
                    "ok", 1)

\* POST /carrier/invoices/{id}/request-changes
request_invoice_changes(d, u, i, notes) ==
    LET inv == d.invoices[i]
    IN  IF _get_carrier_invoice(d, i, u) THEN Raise(d, "denied")
        ELSE IF inv.status # PENDING_CARRIER_REVIEW THEN Raise(d, "conflict")
        ELSE LET d1 == SetStatus(d, i, REVIEW_REQUIRED)
                 d2 == log_event(d1, "invoice", i, "invoice.changes_requested",
                           "CARRIER", u,
                           [NoPayload EXCEPT !.to_status = REVIEW_REQUIRED,
                                             !.notes = notes])
             IN  Result(log_invoice_status_changed(d2, i, inv.status, REVIEW_REQUIRED,
                                                   "CARRIER", u),
                        "ok", 1)

\* CarrierExceptionResolvePayload: the actions its validator lets through
CarrierResolveActions == {"WAIVED", "HELD_CONTRACT_RATE", "RECLASSIFIED", "ACCEPTED_REDUCTION"}

\* POST /carrier/exceptions/{id}/resolve.  After the fields are assigned the
\* handler evaluates ResolutionAction.DENIED, an attribute the class does not
\* declare: the request ends in an unhandled AttributeError before the commit.
resolve_carrier_exception(d, u, e, action, notes) ==
    LET exc == d.exceptions[e]
        i == d.lines[exc.line_item_id].invoice_id
    IN  IF action \notin CarrierResolveActions THEN Raise(d, "invalid")
        ELSE IF _get_carrier_invoice(d, i, u) THEN Raise(d, "denied")
        ELSE IF exc.status \notin {"OPEN", "SUPPLIER_RESPONDED"} THEN Raise(d, "conflict")
        ELSE LET d1 == [d EXCEPT !.exceptions[e].status =
                                     IF action = "WAIVED" THEN "WAIVED" ELSE "RESOLVED",
                                 !.exceptions[e].resolution_action = action,
                                 !.exceptions[e].resolution_notes = notes,
                                 !.exceptions[e].resolved_at = d.t,
                                 !.exceptions[e].resolved_by_user_id = u]
             IN  IF "DENIED" \notin ResolutionAction THEN Raise(d, "error")
                 ELSE LET d2 == IF action = "DENIED"
                                THEN [d1 EXCEPT !.lines[exc.line_item_id].status = "DENIED"]
                                ELSE d1
                      IN  Result(log_exception_resolved(d2, e, u), "ok", 1)

\* "approved_lines": the rows an export writes, the lines of
\* invoice.line_items (every version) that are APPROVED
approved_lines(d, i) ==
    {k \in DOMAIN d.lines : d.lines[k].invoice_id = i /\ d.lines[k].status = "APPROVED"}

\* the body the carrier and the admin export handlers share
ExportBody(d, i, u) ==
    LET inv == d.invoices[i]
    IN  IF inv.status # APPROVED THEN Raise(d, "conflict")
        ELSE IF approved_lines(d, i) = {} THEN Raise(d, "invalid")
        ELSE Result(log_invoice_status_changed(SetStatus(d, i, EXPORTED), i,
                        inv.status, EXPORTED, "CARRIER", u),
                    "ok", 1)

\* GET /carrier/invoices/{id}/export
export_carrier_invoice(d, u, i) ==
    IF _get_carrier_invoice(d, i, u) THEN Raise(d, "denied") ELSE ExportBody(d, i, u)

\* an audit call that takes whatever row it is given
log_mapping_overridden_any(d, id, row, u) ==
    << log_event(d, "mapping_rule", id, "mapping_rule.overridden", "CARRIER", u,
                 NoPayload) >>

\* ── Admin routes ────────────────────────────────────────────────────────────
\* log_mapping_overridden builds its payload from mapping_rule.match_pattern,
\* match_type and supplier_id before it calls log_event: given a row without
\* these columns it raises AttributeError to its caller.  << >> when it raises.
log_mapping_overridden(d, id, row, u) ==
    IF {"match_pattern", "match_type", "supplier_id"} \subseteq DOMAIN row
    THEN << log_event(d, "mapping_rule", id, "mapping_rule.overridden", "CARRIER", u,
                      NoPayload) >>
    ELSE << >>

NewMappingRule(supplier_id, pattern, taxonomy_code, billing_component, t, existing, u) ==
    [supplier_id |-> supplier_id, match_type |-> "keyword_set",
     match_pattern |-> pattern, taxonomy_code |-> taxonomy_code,
     billing_component |-> billing_component, confidence_weight |-> 100,
     confidence_label |-> "HIGH", confirmed_by |-> "CARRIER_OVERRIDE",
     confirmed_by_user_id |-> u, effective_from |-> t, effective_to |-> NONE,
     supersedes_rule_id |-> IF existing = << >> THEN NONE ELSE existing[1].id,
     version |-> IF existing = << >> THEN 1 ELSE existing[1].version + 1]

\* POST /admin/mappings/override.  The first audit call passes the line item
\* where a mapping rule is expected.
override_mapping(d, u, l, taxonomy_code, billing_component, scope) ==
    LET line == d.lines[l]
        supplier_id == IF scope = "this_supplier"
                       THEN d.invoices[line.invoice_id].supplier_id ELSE NULL
        \* the second audit call, on the rule just added
        Logged(d4) ==
            Result(log_mapping_overridden(d4, Len(d4.rules), d4.rules[Len(d4.rules)], u)[1],
                   "ok", 1)
        \* supersede the first active rule of the same pattern, add the new one
        Supersede(d2, found, first) ==
            Logged([d2 EXCEPT
                       !.rules = Append(
                           IF found = {} THEN @ ELSE [@ EXCEPT ![first].effective_to = d2.t],
                           NewMappingRule(supplier_id, line.raw_description,
                               taxonomy_code, billing_component, d2.t,
                               IF found = {} THEN << >>
                               ELSE << [id |-> first, version |-> d2.rules[first].version] >>,
                               u))])
        Among(d2, found) ==
            Supersede(d2, found,
                      IF found = {} THEN 0 ELSE CHOOSE k \in found : \A j \in found : k <= j)
        Rule(d2) ==
            Among(d2, {k \in DOMAIN d2.rules :
                          /\ d2.rules[k].match_pattern = line.raw_description
                          /\ d2.rules[k].match_type = "keyword_set"
                          /\ d2.rules[k].effective_to = NONE
                          /\ d2.rules[k].supplier_id = supplier_id})
        After1(a1) ==
            IF a1 = << >> THEN Raise(d, "error")
            ELSE IF scope \notin {"this_supplier", "global"} THEN Result(a1[1], "ok", 1)
            ELSE Rule(a1[1])
        Updated(d1) == After1(log_mapping_overridden(d1, l, d1.lines[l], u))
    IN  Updated([d EXCEPT !.lines[l].taxonomy_code = taxonomy_code,
                          !.lines[l].billing_component = billing_component,
                          !.lines[l].mapping_confidence = "HIGH",
                          !.lines[l].status = "OVERRIDE"])

\* the actions POST /admin/exceptions/{id}/resolve accepts
valid_actions == {"WAIVED", "HELD_CONTRACT_RATE", "RECLASSIFIED", "ACCEPTED_REDUCTION"}

\* POST /admin/exceptions/{id}/resolve: neither the carrier of the invoice nor
\* the status of the exception is looked at
resolve_exception(d, u, e, action, notes) ==
    IF action \notin valid_actions THEN Raise(d, "invalid")
    ELSE LET d1 == [d EXCEPT !.exceptions[e].status = "RESOLVED",
                             !.exceptions[e].resolution_action = action,
                             !.exceptions[e].resolution_notes = notes,
                             !.exceptions[e].resolved_at = d.t,
                             !.exceptions[e].resolved_by_user_id = u]
         IN  Result(log_exception_resolved(d1, e, u), "ok", 1)

\* POST /admin/invoices/{id}/approve; line_item_ids empty means all lines
approve_invoice(d, u, i, line_item_ids) ==
    LET inv == d.invoices[i]
    IN  IF inv.status \notin {PENDING_CARRIER_REVIEW, CARRIER_REVIEWING}
        THEN Raise(d, "conflict")
        ELSE LET d1 == ApproveLines(d, i, {"VALIDATED", "OVERRIDE", "RESOLVED"},
                                    line_item_ids)
             IN  Result(log_invoice_status_changed(SetStatus(d1, i, APPROVED), i,
                            inv.status, APPROVED, "CARRIER", u),
                        "ok", 1)

\* GET /admin/invoices/{id}/export
export_invoice(d, u, i) == ExportBody(d, i, u)

\* ── Inputs ──────────────────────────────────────────────────────────────────
Notes == {"note"}
ActionInputs == {"HELD_CONTRACT_RATE", "DENIED"}
OverrideScopes == {"this_line", "this_supplier"}
InvoiceIds == DOMAIN invoices
ExceptionIds == DOMAIN exceptions
LineIds == DOMAIN lines
InvoiceOfException(e) == lines[exceptions[e].line_item_id].invoice_id
\* who creates invoices, and under which contract
CreateInputs == {<<"us1", "k1">>}
\* what the environment does to a run: nothing, an exception out of the
\* classifier on the first row, or an unhandled error before the last commit
Faults(rows) ==
    {[raising |-> {}, crash |-> FALSE], [raising |-> {}, crash |-> TRUE]}
    \cup {[raising |-> {k}, crash |-> FALSE] : k \in DOMAIN rows \cap {1}}
StoredRows(i) ==
    IF invoices[i].raw_file_path = << >> THEN << >>
    ELSE CSVParser_parse(invoices[i].raw_file_path[1])

\* ── Actions: one request, handled to its end ────────────────────────────────
CreateInvoice ==
    \E in \in CreateInputs :
        /\ Len(invoices) < MaxInvoices
        /\ Handle("create_invoice", in[1], Len(invoices) + 1, 0, 0,
                  create_invoice(Session, in[1], in[2]))
Upload ==
    \E u \in SupplierUsers, i \in InvoiceIds, f \in Files :
        \E x \in Faults(CSVParser_parse(f)) :
            Handle("upload", u, i, 0, 0,
                   upload_invoice_file(Session, Session, u, i, f, x.raising, x.crash))
Resubmit ==
    \E u \in SupplierUsers, i \in InvoiceIds, f \in Files :
        \E x \in Faults(CSVParser_parse(f)) :
            Handle("resubmit", u, i, 0, 0,
                   resubmit_invoice(Session, u, i, f, x.raising, x.crash))
ProcessInvoice ==
    \E i \in InvoiceIds :
        \E x \in Faults(StoredRows(i)) :
            Handle("process_invoice", NULL, i, 0, 0,
                   process_invoice(Session, i, x.raising, x.crash))
Respond ==
    \E u \in SupplierUsers, e \in ExceptionIds :
        Handle("respond", u, InvoiceOfException(e), e, 0,
               respond_to_exception(Session, u, e, "response"))
CarrierApprove ==
    \E u \in CarrierAdmins, i \in InvoiceIds, n \in Notes :
        Handle("carrier_approve", u, i, 0, 0, approve_carrier_invoice(Session, u, i, n))
RequestChanges ==
    \E u \in CarrierAdmins, i \in InvoiceIds, n \in Notes :
        Handle("request_changes", u, i, 0, 0, request_invoice_changes(Session, u, i, n))
CarrierResolve ==
    \E u \in CarrierAdmins, e \in ExceptionIds, a \in ActionInputs, n \in Notes :
        Handle("carrier_resolve", u, InvoiceOfException(e), e, 0,
               resolve_carrier_exception(Session, u, e, a, n))
CarrierExport ==
    \E u \in CarrierAdmins, i \in InvoiceIds :
        Handle("carrier_export", u, i, 0, 0, export_carrier_invoice(Session, u, i))
OverrideMapping ==
    \E u \in CarrierAdmins, l \in LineIds, scope \in OverrideScopes :
        Handle("override_mapping", u, lines[l].invoice_id, 0, l,
               override_mapping(Session, u, l, "IME.PHY_EXAM.PROF_FEE",
                                "PROFESSIONAL_FEE", scope))
AdminResolve ==
    \E u \in CarrierAdmins, e \in ExceptionIds, a \in ActionInputs, n \in Notes :
        Handle("admin_resolve", u, InvoiceOfException(e), e, 0,
               resolve_exception(Session, u, e, a, n))
AdminApprove ==
    \E u \in CarrierAdmins, i \in InvoiceIds :
        \E ids \in {{}} \cup {{l} : l \in {k \in LineIds : lines[k].invoice_id = i}} :
            Handle("admin_approve", u, i, 0, 0, approve_invoice(Session, u, i, ids))
AdminExport ==
    \E u \in CarrierAdmins, i \in InvoiceIds :
        Handle("admin_export", u, i, 0, 0, export_invoice(Session, u, i))

Next ==
    \/ CreateInvoice
    \/ Upload
    \/ Resubmit
    \/ ProcessInvoice
    \/ Respond
    \/ CarrierApprove
    \/ RequestChanges
    \/ CarrierResolve
    \/ CarrierExport
    \/ OverrideMapping
    \/ AdminResolve
    \/ AdminApprove
    \/ AdminExport

Spec == Init /\ [][Next]_vars

\* ── Requests that overlap ───────────────────────────────────────────────────
\* Each request has a session of its own (get_db).  It loads its rows and
\* checks its guard on what it loaded; its UPDATEs and INSERTs reach the store
\* at its flush and commit.  No handler locks a row or compares the status it
\* read with the stored one, so a flush writes whatever the store holds by then.
InFlight(op, u, i, snap, r) ==
    [op |-> op, actor |-> u, inv |-> i, snap |-> snap, d |-> r.d]

RemoveAt(s, k) == SubSeq(s, 1, k - 1) \o SubSeq(s, k + 1, Len(s))

\* UPDATE of the rows the session changed: only the columns it assigned
FlushRows(cur, snap, new) ==
    [j \in DOMAIN cur |->
        IF j \in DOMAIN snap
        THEN [f \in DOMAIN cur[j] |->
                 IF new[j][f] # snap[j][f] THEN new[j][f] ELSE cur[j][f]]
        ELSE cur[j]]

\* INSERT of the rows the session added
FlushInserts(cur, snap, new) == cur \o SubSeq(new, Len(snap) + 1, Len(new))

\* the request has loaded the invoice and passed its guard
Begin(op, u, i, r) ==
    /\ Len(inflight) < MaxInflight
    /\ r.commits > 0
    /\ inflight' = Append(inflight, InFlight(op, u, i, Session, r))
    /\ UNCHANGED <<store, now, last, call>>

BeginCarrierApprove ==
    \E u \in CarrierAdmins, i \in InvoiceIds, n \in Notes :
        Begin("carrier_approve", u, i, approve_carrier_invoice(Session, u, i, n))
BeginRequestChanges ==
    \E u \in CarrierAdmins, i \in InvoiceIds, n \in Notes :
        Begin("request_changes", u, i, request_invoice_changes(Session, u, i, n))

\* db.flush() ... db.commit() of a request in flight
FinishRequest ==
    \E k \in DOMAIN inflight :
        LET Flushed(q) ==
                /\ invoices' = FlushRows(invoices, q.snap.invoices, q.d.invoices)
                /\ lines' = FlushRows(lines, q.snap.lines, q.d.lines)
                /\ exceptions' = FlushRows(exceptions, q.snap.exceptions, q.d.exceptions)
                /\ audit' = FlushInserts(audit, q.snap.audit, q.d.audit)
                /\ last' = Request(q.op, q.actor, q.inv, 0, 0, "ok", q.d.trans)
        IN  /\ now < MaxOps
            /\ Flushed(inflight[k])
            /\ now' = now + 1
            /\ inflight' = RemoveAt(inflight, k)
            /\ UNCHANGED <<versions, vresults, rules, call>>

NextConc ==
    \/ Next
    \/ BeginCarrierApprove
    \/ BeginRequestChanges
    \/ FinishRequest

SpecConc == Init /\ [][NextConc]_vars

\* ════════════════════════════════════════════════════════════════════════════
\* Properties
\* ════════════════════════════════════════════════════════════════════════════
LinesOf(d, i) == {l \in DOMAIN d.lines : d.lines[l].invoice_id = i}
ExceptionsOf(d, i) ==
    {e \in DOMAIN d.exceptions : d.lines[d.exceptions[e].line_item_id].invoice_id = i}

\* the users of the supplier, and of the carrier, the invoice belongs to
OwnSuppliers(i) ==
    {u \in SupplierUsers : Users[u].supplier_id = invoices[i].supplier_id}
OwnCarriers(i) ==
    {u \in CarrierAdmins :
        Users[u].carrier_id = Contracts[invoices[i].contract_id].carrier_id}

\* a step in which a request committed
Committed == now' = now + 1
PipelineOps == {"upload", "resubmit", "process_invoice"}

\* the session a request sees after the result r was committed
After(r) == [r.d EXCEPT !.t = @ + 1, !.trans = << >>]

\* the result leaves the status of the invoice, of its lines and of its
\* exceptions as the store has them
StatusesKept(i, r) ==
    /\ r.d.invoices[i].status = invoices[i].status
    /\ \A l \in LinesOf(Session, i) : r.d.lines[l].status = lines[l].status
    /\ \A e \in ExceptionsOf(Session, i) : r.d.exceptions[e].status = exceptions[e].status

\* ── C1 ──────────────────────────────────────────────────────────────────────
PermittedTransitions ==
    {<<DRAFT, SUBMITTED>>, <<SUBMITTED, PROCESSING>>,
     <<PROCESSING, PENDING_CARRIER_REVIEW>>, <<PROCESSING, REVIEW_REQUIRED>>,
     <<REVIEW_REQUIRED, SUPPLIER_RESPONDED>>, <<REVIEW_REQUIRED, SUBMITTED>>,
     <<SUPPLIER_RESPONDED, CARRIER_REVIEWING>>,
     <<PENDING_CARRIER_REVIEW, APPROVED>>, <<PENDING_CARRIER_REVIEW, REVIEW_REQUIRED>>,
     <<CARRIER_REVIEWING, APPROVED>>, <<CARRIER_REVIEWING, REVIEW_REQUIRED>>,
     <<CARRIER_REVIEWING, DISPUTED>>, <<DISPUTED, CARRIER_REVIEWING>>,
     <<APPROVED, EXPORTED>>}
    \cup {<<s, WITHDRAWN>> : s \in SubmissionStatus \ TERMINAL}

\* C1: every assignment to Invoice.status that a request makes, in a
\* synchronous or a background pipeline run included, is one of the permitted
\* transitions of the invoice state machine.
C1_OnlyPermittedTransitions ==
    \A k \in DOMAIN last.trans : last.trans[k] \in PermittedTransitions

\* ── C2 ──────────────────────────────────────────────────────────────────────
\* the result of every mutating operation its own supplier or carrier can aim
\* at invoice i, at one of its lines or at one of its exceptions
MutatingResults(i) ==
    LET d == Session
    IN  {upload_invoice_file(d, d, u, i, f, {}, FALSE) : u \in OwnSuppliers(i), f \in Files}
        \cup {resubmit_invoice(d, u, i, f, {}, FALSE) : u \in OwnSuppliers(i), f \in Files}
        \cup {respond_to_exception(d, u, e, "response") :
                 u \in OwnSuppliers(i), e \in ExceptionsOf(d, i)}
        \cup {resolve_carrier_exception(d, u, e, "HELD_CONTRACT_RATE", "note") :
                 u \in OwnCarriers(i), e \in ExceptionsOf(d, i)}
        \cup {resolve_exception(d, u, e, "HELD_CONTRACT_RATE", "note") :
                 u \in OwnCarriers(i), e \in ExceptionsOf(d, i)}
        \cup {override_mapping(d, u, l, "IME.PHY_EXAM.PROF_FEE", "PROFESSIONAL_FEE", "this_line") :
                 u \in OwnCarriers(i), l \in LinesOf(d, i)}
        \cup {request_invoice_changes(d, u, i, "note") : u \in OwnCarriers(i)}
        \cup {approve_carrier_invoice(d, u, i, "note") : u \in OwnCarriers(i)}
        \cup {approve_invoice(d, u, i, {}) : u \in OwnCarriers(i)}
        \cup {export_carrier_invoice(d, u, i) : u \in OwnCarriers(i)}
        \cup {export_invoice(d, u, i) : u \in OwnCarriers(i)}
        \cup {process_invoice(d, i, {}, FALSE)}

\* C2: on an invoice in a terminal status every mutating operation is rejected
\* with a conflict and changes neither the status of the invoice nor that of
\* any of its lines or exceptions.
C2_TerminalRejectsEveryMutation ==
    \A i \in InvoiceIds :
        invoices[i].status \in TERMINAL =>
            \A r \in MutatingResults(i) : r.resp = "conflict" /\ StatusesKept(i, r)

\* ── C3 ──────────────────────────────────────────────────────────────────────
ApproveResults(i) ==
    {approve_carrier_invoice(Session, u, i, "note") : u \in OwnCarriers(i)}
    \cup {approve_invoice(Session, u, i, {}) : u \in OwnCarriers(i)}

\* C3: approve succeeds only from PENDING_CARRIER_REVIEW or CARRIER_REVIEWING
\* and is a conflict that changes nothing elsewhere; on success, on every
\* approve route, each OPEN exception of the invoice is WAIVED with action
\* WAIVED, each VALIDATED, OVERRIDE, RESOLVED or EXCEPTION line is APPROVED and
\* the invoice is APPROVED.
C3_ApproveWaivesAndPromotes ==
    \A i \in InvoiceIds : \A r \in ApproveResults(i) :
        IF invoices[i].status \in {PENDING_CARRIER_REVIEW, CARRIER_REVIEWING}
        THEN /\ r.resp = "ok"
             /\ r.d.invoices[i].status = APPROVED
             /\ \A e \in ExceptionsOf(Session, i) :
                    exceptions[e].status = "OPEN" =>
                        /\ r.d.exceptions[e].status = "WAIVED"
                        /\ r.d.exceptions[e].resolution_action = "WAIVED"
             /\ \A l \in LinesOf(Session, i) :
                    lines[l].status \in {"VALIDATED", "OVERRIDE", "RESOLVED", "EXCEPTION"}
                        => r.d.lines[l].status = "APPROVED"
        ELSE r.resp = "conflict" /\ r.commits = 0

\* ── C4 ──────────────────────────────────────────────────────────────────────
\* files the CSV parser reads
ParsableFiles == {f \in Files : ParseOk(f)}

\* C4: resubmit is accepted exactly from REVIEW_REQUIRED or SUPPLIER_RESPONDED;
\* accepted, it raises current_version by one, creates the one InvoiceVersion
\* of that number and ends in REVIEW_REQUIRED or PENDING_CARRIER_REVIEW;
\* elsewhere it is a conflict and current_version stays.
C4_ResubmitAccepted ==
    \A i \in InvoiceIds : \A u \in OwnSuppliers(i) : \A f \in ParsableFiles :
        LET r == resubmit_invoice(Session, u, i, f, {}, FALSE)
            v == invoices[i].current_version
        IN  IF invoices[i].status \in {REVIEW_REQUIRED, SUPPLIER_RESPONDED}
            THEN /\ r.resp = "ok"
                 /\ r.d.invoices[i].current_version = v + 1
                 /\ ~uq_invoice_version(versions, i, v + 1)
                 /\ r.d.versions = Append(versions, InvoiceVersion(i, v + 1))
                 /\ r.d.invoices[i].status \in {REVIEW_REQUIRED, PENDING_CARRIER_REVIEW}
            ELSE /\ r.resp = "conflict"
                 /\ r.d.invoices[i].current_version = v

\* ── C5 ──────────────────────────────────────────────────────────────────────
\* C5: upload is accepted exactly from DRAFT or REVIEW_REQUIRED; accepted, it
\* creates one InvoiceVersion and ends in REVIEW_REQUIRED or
\* PENDING_CARRIER_REVIEW; elsewhere it is a conflict, creates no
\* InvoiceVersion and leaves the invoice status.
C5_UploadAccepted ==
    \A i \in InvoiceIds : \A u \in OwnSuppliers(i) : \A f \in ParsableFiles :
        LET r == upload_invoice_file(Session, Session, u, i, f, {}, FALSE)
        IN  IF invoices[i].status \in {DRAFT, REVIEW_REQUIRED}
            THEN /\ r.resp = "ok"
                 /\ Len(r.d.versions) = Len(versions) + 1
                 /\ r.d.invoices[i].status \in {REVIEW_REQUIRED, PENDING_CARRIER_REVIEW}
            ELSE /\ r.resp = "conflict"
                 /\ r.d.versions = versions
                 /\ r.d.invoices[i].status = invoices[i].status

\* ── C6 ──────────────────────────────────────────────────────────────────────
\* the findings a committed run recorded
NewFindings == (Len(vresults) + 1)..Len(vresults')
\* the step is a pipeline run that parsed its file
ParsedRun ==
    /\ Committed
    /\ last'.op \in PipelineOps
    /\ last'.resp = "ok"
    /\ invoices'[last'.inv].raw_file_path # << >>
    /\ ParseOk(invoices'[last'.inv].raw_file_path[1])

\* C6: a run that parsed its file leaves the invoice in REVIEW_REQUIRED exactly
\* when it recorded a FAIL finding, and in PENDING_CARRIER_REVIEW otherwise.
C6_ReviewRequiredIffFail ==
    [][ParsedRun =>
          IF \E k \in NewFindings : vresults'[k].status = "FAIL"
          THEN invoices'[last'.inv].status = REVIEW_REQUIRED
          ELSE invoices'[last'.inv].status = PENDING_CARRIER_REVIEW]_vars

\* ── C7 ──────────────────────────────────────────────────────────────────────
\* each exception points at one finding, FAIL or WARNING, of its own line
C7Inv ==
    \A e \in DOMAIN exceptions :
        LET v == exceptions[e].validation_result_id
        IN  /\ v \in DOMAIN vresults
            /\ vresults[v].status \in {"FAIL", "WARNING"}
            /\ vresults[v].line_item_id = exceptions[e].line_item_id

\* a run opens one exception, OPEN, for each FAIL finding it persists, none
\* for a PASS finding, and no exception for anything but its own findings
C7Step ==
    (Committed /\ last'.op \in PipelineOps) =>
        LET NewExceptions == (Len(exceptions) + 1)..Len(exceptions')
            For(k) == {e \in DOMAIN exceptions' : exceptions'[e].validation_result_id = k}
        IN  /\ \A k \in NewFindings :
                   /\ vresults'[k].status = "FAIL" => Cardinality(For(k)) = 1
                   /\ vresults'[k].status = "PASS" => For(k) = {}
            /\ \A e \in NewExceptions :
                   /\ exceptions'[e].status = "OPEN"
                   /\ exceptions'[e].validation_result_id \in NewFindings

\* C7: in every reachable state each ExceptionRecord references one
\* ValidationResult whose status is FAIL or WARNING and whose line is the
\* exception's line; and a pipeline run creates exactly one OPEN exception for
\* each FAIL finding it persists and none for a PASS finding.
C7_ExceptionsFollowFindings == []C7Inv /\ [][C7Step]_vars

\* a run has persisted a PASS, a WARNING and a FAIL finding, the FAIL with its
\* OPEN exception
C7_Witness ==
    /\ last.op \in PipelineOps
    /\ \E k \in DOMAIN vresults : vresults[k].status = "PASS"
    /\ \E k \in DOMAIN vresults : vresults[k].status = "WARNING"
    /\ \E e \in DOMAIN exceptions :
           /\ exceptions[e].status = "OPEN"
           /\ vresults[exceptions[e].validation_result_id].status = "FAIL"

\* ── C8 ──────────────────────────────────────────────────────────────────────
Settled(e) == exceptions[e].status \in {"RESOLVED", "WAIVED"}

C8Inv ==
    \A e \in DOMAIN exceptions : \A u \in OwnCarriers(InvoiceOfException(e)) :
        Settled(e) =>
            /\ resolve_carrier_exception(Session, u, e, "HELD_CONTRACT_RATE", "note").resp
                   = "conflict"
            /\ resolve_exception(Session, u, e, "HELD_CONTRACT_RATE", "note").resp
                   = "conflict"

C8Step ==
    \A e \in DOMAIN exceptions :
        Settled(e) =>
            /\ exceptions'[e].status = exceptions[e].status
            /\ exceptions'[e].resolution_action = exceptions[e].resolution_action
            /\ exceptions'[e].resolution_notes = exceptions[e].resolution_notes
            /\ exceptions'[e].resolved_at = exceptions[e].resolved_at
            /\ exceptions'[e].resolved_by_user_id = exceptions[e].resolved_by_user_id

\* C8: once an exception is RESOLVED or WAIVED no operation changes its
\* status, resolution_action, resolution_notes, resolved_at or resolver, and a
\* further resolve on the carrier or the admin route is a conflict.
C8_SettledExceptionImmutable == []C8Inv /\ [][C8Step]_vars

\* ── C9 ──────────────────────────────────────────────────────────────────────
\* C9: from REVIEW_REQUIRED with one OPEN exception, respond, carrier resolve
\* with HELD_CONTRACT_RATE, carrier approve and export are each accepted, have
\* the stated effect and append at least one audit event.
C9_LifecycleExecutable ==
    \A i \in InvoiceIds : \A e \in ExceptionsOf(Session, i) :
      \A us \in OwnSuppliers(i) : \A uc \in OwnCarriers(i) :
        (/\ invoices[i].status = REVIEW_REQUIRED
         /\ ExceptionsOf(Session, i) = {e}
         /\ exceptions[e].status = "OPEN") =>
            LET r1 == respond_to_exception(Session, us, e, "response")
                r2 == resolve_carrier_exception(After(r1), uc, e, "HELD_CONTRACT_RATE", "note")
                r3 == approve_carrier_invoice(After(r2), uc, i, "note")
                r4 == export_carrier_invoice(After(r3), uc, i)
            IN  /\ r1.resp = "ok"
                /\ r1.d.exceptions[e].status = "SUPPLIER_RESPONDED"
                /\ r1.d.invoices[i].status = SUPPLIER_RESPONDED
                /\ Len(r1.d.audit) > Len(audit)
                /\ r2.resp = "ok"
                /\ r2.d.exceptions[e].status = "RESOLVED"
                /\ Len(r2.d.audit) > Len(r1.d.audit)
                /\ r3.resp = "ok"
                /\ r3.d.invoices[i].status = APPROVED
                /\ Len(r3.d.audit) > Len(r2.d.audit)
                /\ r4.resp = "ok"
                /\ r4.d.invoices[i].status = EXPORTED
                /\ Len(r4.d.audit) > Len(r3.d.audit)

\* ── C10 ─────────────────────────────────────────────────────────────────────
\* what a user of another carrier can ask of invoice i on /carrier and /admin
ForeignCarrierResults(i) ==
    LET d == Session
        F == CarrierAdmins \ OwnCarriers(i)
    IN  {approve_carrier_invoice(d, u, i, "note") : u \in F}
        \cup {request_invoice_changes(d, u, i, "note") : u \in F}
        \cup {export_carrier_invoice(d, u, i) : u \in F}
        \cup {resolve_carrier_exception(d, u, e, "HELD_CONTRACT_RATE", "note") :
                 u \in F, e \in ExceptionsOf(d, i)}
        \cup {approve_invoice(d, u, i, {}) : u \in F}
        \cup {export_invoice(d, u, i) : u \in F}
        \cup {resolve_exception(d, u, e, "HELD_CONTRACT_RATE", "note") :
                 u \in F, e \in ExceptionsOf(d, i)}
        \cup {override_mapping(d, u, l, "IME.PHY_EXAM.PROF_FEE", "PROFESSIONAL_FEE", "this_line") :
                 u \in F, l \in LinesOf(d, i)}

\* what a user of another supplier can ask of invoice i on /supplier
ForeignSupplierResults(i) ==
    LET d == Session
        F == SupplierUsers \ OwnSuppliers(i)
    IN  {upload_invoice_file(d, d, u, i, f, {}, FALSE) : u \in F, f \in Files}
        \cup {resubmit_invoice(d, u, i, f, {}, FALSE) : u \in F, f \in Files}
        \cup {respond_to_exception(d, u, e, "response") : u \in F, e \in ExceptionsOf(d, i)}

\* C10: on every route a request of a carrier user on an invoice of another
\* carrier, and of a supplier user on an invoice of another supplier, is
\* denied and changes no state.
C10_TenantScoping ==
    \A i \in InvoiceIds :
        \A r \in ForeignCarrierResults(i) \cup ForeignSupplierResults(i) :
            r.resp = "denied" /\ r.commits = 0

\* ── C11 ─────────────────────────────────────────────────────────────────────
\* C11: however many pipeline runs and uploads an invoice version has seen,
\* there is at most one LineItem per (invoice_id, invoice_version, line_number).
C11_OneLinePerVersionAndNumber ==
    \A a, b \in DOMAIN lines :
        (/\ lines[a].invoice_id = lines[b].invoice_id
         /\ lines[a].invoice_version = lines[b].invoice_version
         /\ lines[a].line_number = lines[b].line_number) => a = b

\* ── C12 ─────────────────────────────────────────────────────────────────────
\* the version numbers of the InvoiceVersion rows of invoice i
VersionNumbers(i) ==
    {versions[k].version_number : k \in {j \in DOMAIN versions : versions[j].invoice_id = i}}

\* no two InvoiceVersion rows share (invoice_id, version_number)
VersionsDistinct ==
    \A a, b \in DOMAIN versions : versions[a] = versions[b] => a = b

\* C12 as stated: for every invoice, current_version is the greatest
\* version_number of its InvoiceVersions, and the version numbers of an invoice
\* are pairwise distinct.
C12_CurrentVersionIsMax ==
    /\ VersionsDistinct
    /\ \A i \in InvoiceIds :
           /\ invoices[i].current_version \in VersionNumbers(i)
           /\ \A n \in VersionNumbers(i) : n <= invoices[i].current_version

\* C12, amended: an invoice that has InvoiceVersions has the greatest of their
\* numbers as current_version; an invoice without any (before its first
\* accepted upload) has current_version 1; version numbers of an invoice are
\* pairwise distinct.
C12_CurrentVersionIsMaxOnceUploaded ==
    /\ VersionsDistinct
    /\ \A i \in InvoiceIds :
           IF VersionNumbers(i) = {}
           THEN invoices[i].current_version = 1
           ELSE /\ invoices[i].current_version \in VersionNumbers(i)
                /\ \A n \in VersionNumbers(i) : n <= invoices[i].current_version

\* an invoice with two versions after a resubmission, and a rejected upload
\* on it
C12_Witness ==
    \E i \in InvoiceIds :
        /\ Cardinality(VersionNumbers(i)) = 2
        /\ invoices[i].status = REVIEW_REQUIRED
        /\ \E u \in OwnSuppliers(i) :
               upload_invoice_file(Session, Session, u, i, F_OVER, {}, FALSE).resp = "error"

\* ── C13 ─────────────────────────────────────────────────────────────────────
\* the step is a resubmission that was accepted and processed
ResubmissionProcessed ==
    /\ Committed
    /\ last'.op = "resubmit"
    /\ last'.resp = "ok"

\* the rows a committed step added to the line items
NewLines == (Len(lines) + 1)..Len(lines')

\* C13: a processed resubmission files every line item it creates under the
\* new current_version, which is one more than before, and leaves every line
\* item, validation result and exception that existed before it exactly as it
\* was.
C13_ResubmitKeepsEarlierVersions ==
    [][ResubmissionProcessed =>
          /\ invoices'[last'.inv].current_version = invoices[last'.inv].current_version + 1
          /\ \A l \in NewLines :
                 /\ lines'[l].invoice_id = last'.inv
                 /\ lines'[l].invoice_version = invoices'[last'.inv].current_version
          /\ \A l \in DOMAIN lines : l \in DOMAIN lines' /\ lines'[l] = lines[l]
          /\ \A k \in DOMAIN vresults : k \in DOMAIN vresults' /\ vresults'[k] = vresults[k]
          /\ \A e \in DOMAIN exceptions :
                 e \in DOMAIN exceptions' /\ exceptions'[e] = exceptions[e]]_vars

\* a resubmission has been processed on an invoice whose first version had a
\* line with an exception: both versions have line items
C13_Witness ==
    /\ last.op = "resubmit"
    /\ last.resp = "ok"
    /\ \E a, b \in LinesOf(Session, last.inv) :
           /\ lines[a].invoice_version = 1
           /\ lines[b].invoice_version = 2
           /\ invoices[last.inv].current_version = 2
           /\ \E e \in DOMAIN exceptions : exceptions[e].line_item_id = a

\* ── C14 ─────────────────────────────────────────────────────────────────────
REQUIRED_FIELDS == {"description", "amount"}
\* the inputs whose parse is to fail: no data rows, a required column the
\* header lacks, a format that is unsupported or not implemented
ParseFailureInput(file) ==
    \/ detect_format(file) # "csv"
    \/ file.rows = << >>
    \/ ~(REQUIRED_FIELDS \subseteq file.columns)
\* the step is a pipeline run, ended without an unhandled error, on such a file
FailedParseRun ==
    /\ Committed
    /\ last'.op \in PipelineOps
    /\ last'.resp = "ok"
    /\ invoices'[last'.inv].raw_file_path # << >>
    /\ ParseFailureInput(invoices'[last'.inv].raw_file_path[1])

\* C14: a pipeline run on a file whose parse is to fail (no data rows, a
\* missing required column, an unsupported or not-implemented format) leaves
\* the invoice in REVIEW_REQUIRED and adds no line item, no validation result
\* and no exception.
C14_ParseFailureCreatesNothing ==
    [][FailedParseRun =>
          /\ invoices'[last'.inv].status = REVIEW_REQUIRED
          /\ lines' = lines
          /\ vresults' = vresults
          /\ exceptions' = exceptions]_vars

\* ── C15 ─────────────────────────────────────────────────────────────────────
\* the audit rows a step commits
NewAuditEvents == (Len(audit) + 1)..Len(audit')

\* C15: every committed change of the status of an invoice comes with an audit
\* event of that invoice entity, committed by the same request.
C15_StatusChangeAudited ==
    [][\A i \in DOMAIN invoices :
          invoices'[i].status # invoices[i].status =>
              \E k \in NewAuditEvents :
                  audit'[k].entity_type = "invoice" /\ audit'[k].entity_id = i]_vars

\* ── C16 ─────────────────────────────────────────────────────────────────────
AuditOf(log, i) ==
    {k \in DOMAIN log : log[k].entity_type = "invoice" /\ log[k].entity_id = i}

\* C16: the audit log is append-only: every committed row stays as it was
\* written, so the rows of an invoice only grow, and the created_at of a new
\* row is the time of its transaction, not a value of the request.
C16_AuditAppendOnly ==
    [][/\ Len(audit') >= Len(audit)
       /\ \A k \in DOMAIN audit : audit'[k] = audit[k]
       /\ \A i \in DOMAIN invoices : AuditOf(audit, i) \subseteq AuditOf(audit', i)
       /\ \A k \in NewAuditEvents : audit'[k].created_at = now]_vars

\* an invoice with rows from three earlier requests has just had one more
\* request committed
C16_Witness ==
    \E i \in DOMAIN invoices :
        /\ Cardinality({audit[k].created_at : k \in AuditOf(audit, i)}) >= 3
        /\ last.inv = i
        /\ last.op \in {"carrier_approve", "request_changes", "admin_approve", "resubmit"}

\* ── C17 ─────────────────────────────────────────────────────────────────────
\* the invoice has a file in storage
StoredFile(i) == invoices[i].raw_file_path # << >>

\* the result r of a run on invoice i that met an unhandled error: nothing of
\* the run is stored, the stored status is SUBMITTED, a later run is accepted
RunRolledBack(i, r) ==
    /\ r.d.lines = lines
    /\ r.d.vresults = vresults
    /\ r.d.exceptions = exceptions
    /\ r.d.invoices[i].status = SUBMITTED
    /\ process_invoice(After(r), i, {}, FALSE).resp = "ok"

\* the runs of invoice i that meet an unhandled error after the transition to
\* PROCESSING: the worker's job on a stored file, and the run an accepted
\* upload or resubmission starts
FailedRuns(i) ==
    {process_invoice(Session, i, {}, TRUE) : x \in {y \in {1} : StoredFile(i)}}
    \cup {r \in {upload_invoice_file(Session, Session, u, i, f, {}, TRUE) :
                    u \in OwnSuppliers(i), f \in Files} : r.commits = 1}
    \cup {r \in {resubmit_invoice(Session, u, i, f, {}, TRUE) :
                    u \in OwnSuppliers(i), f \in Files} : r.commits = 1}

\* C17: a pipeline run that meets an unhandled error after the transition to
\* PROCESSING stores no line item, validation result or exception, leaves the
\* invoice SUBMITTED, and a later run on the invoice is accepted.
C17_PipelineRunAtomic ==
    \A i \in InvoiceIds : \A r \in FailedRuns(i) : RunRolledBack(i, r)

\* ── C18 ─────────────────────────────────────────────────────────────────────
\* the step commits a request that was in flight
Finishes(k) == k \in DOMAIN inflight /\ inflight' = RemoveAt(inflight, k) /\ Committed

\* C18: transitions of one invoice are serialized: a request that commits a
\* transition acts on the status the invoice has in the store; of two requests
\* that read the same status, the second to commit does not go through.
C18_TransitionsSerialized ==
    [][\A k \in DOMAIN inflight :
          Finishes(k) =>
              inflight[k].snap.invoices[inflight[k].inv].status
                  = invoices[inflight[k].inv].status]_vars

\* ── C19 ─────────────────────────────────────────────────────────────────────
\* the exceptions still to be resolved
Resolvable == {e \in ExceptionIds : exceptions[e].status \in {"OPEN", "SUPPLIER_RESPONDED"}}

\* what the resolve routes answer to DENIED from a user of the invoice's carrier
DeniedResults(e) ==
    {resolve_carrier_exception(Session, u, e, "DENIED", n) :
        u \in OwnCarriers(InvoiceOfException(e)), n \in Notes}
    \cup {resolve_exception(Session, u, e, "DENIED", n) :
            u \in OwnCarriers(InvoiceOfException(e)), n \in Notes}

\* r resolves e as denied and an approval after it keeps the line DENIED
DeniedAndKept(e, r) ==
    LET l == exceptions[e].line_item_id
        i == InvoiceOfException(e)
        Kept(a) == a.resp = "ok" => a.d.lines[l].status = "DENIED"
    IN  /\ r.resp = "ok"
        /\ r.d.exceptions[e].status = "RESOLVED"
        /\ r.d.exceptions[e].resolution_action = "DENIED"
        /\ r.d.lines[l].status = "DENIED"
        /\ \A u \in OwnCarriers(i) :
              /\ Kept(approve_carrier_invoice(After(r), u, i, "note"))
              /\ Kept(approve_invoice(After(r), u, i, {}))

\* C19: resolving an OPEN or SUPPLIER_RESPONDED exception with DENIED is
\* accepted, leaves the exception RESOLVED with resolution_action DENIED and
\* its line DENIED, and an approval of the invoice afterwards leaves that line
\* DENIED.
C19_DeniedResolution ==
    \A e \in Resolvable : \E r \in DeniedResults(e) : DeniedAndKept(e, r)

\* ── C20 ─────────────────────────────────────────────────────────────────────
\* the actions a resolution may carry
ResolutionInputs ==
    {"WAIVED", "HELD_CONTRACT_RATE", "RECLASSIFIED", "ACCEPTED_REDUCTION", "REUPLOAD",
     "DENIED"}

\* r, the answer to user u resolving e with the action, is a rejection or
\* records the resolution: WAIVED for WAIVED, RESOLVED for the other actions
ResolutionRecorded(e, u, action, r) ==
    r.resp = "ok" =>
        /\ r.d.exceptions[e].status = (IF action = "WAIVED" THEN "WAIVED" ELSE "RESOLVED")
        /\ r.d.exceptions[e].resolution_action = action
        /\ r.d.exceptions[e].resolved_at # NONE
        /\ r.d.exceptions[e].resolved_by_user_id = u

\* C20: on each resolve route, an accepted resolution of an OPEN or
\* SUPPLIER_RESPONDED exception sets its status to WAIVED for the action WAIVED
\* and to RESOLVED for any other action, records the requested action as
\* resolution_action and sets resolved_at and resolved_by_user_id.
C20_ResolutionMapping ==
    \A e \in Resolvable : \A u \in OwnCarriers(InvoiceOfException(e)) :
        \A action \in ResolutionInputs : \A n \in Notes :
            /\ ResolutionRecorded(e, u, action,
                                  resolve_carrier_exception(Session, u, e, action, n))
            /\ ResolutionRecorded(e, u, action,
                                  resolve_exception(Session, u, e, action, n))

\* ── C21 ─────────────────────────────────────────────────────────────────────
\* the rows r adds to the audit log
AddedEvents(r) == (Len(audit) + 1)..Len(r.d.audit)

\* what request-changes answers to a user of the invoice's carrier
C21Inv ==
    \A i \in InvoiceIds : \A u \in OwnCarriers(i) : \A n \in Notes :
        LET Answer(r) ==
                IF invoices[i].status = PENDING_CARRIER_REVIEW
                THEN /\ r.resp = "ok"
                     /\ r.commits > 0
                     /\ r.d.invoices[i].status = REVIEW_REQUIRED
                     /\ \E k \in AddedEvents(r) :
                            /\ r.d.audit[k].entity_type = "invoice"
                            /\ r.d.audit[k].entity_id = i
                            /\ r.d.audit[k].event_type = "invoice.changes_requested"
                            /\ r.d.audit[k].payload.notes = n
                ELSE /\ r.resp = "conflict"
                     /\ r.commits = 0
                     /\ r.d.invoices = invoices
                     /\ r.d.audit = audit
        IN  Answer(request_invoice_changes(Session, u, i, n))

\* a committed request-changes found the invoice in PENDING_CARRIER_REVIEW
C21Step ==
    (Committed /\ last'.op = "request_changes") =>
        /\ invoices[last'.inv].status = PENDING_CARRIER_REVIEW
        /\ invoices'[last'.inv].status = REVIEW_REQUIRED
        /\ \E k \in NewAuditEvents :
               /\ audit'[k].event_type = "invoice.changes_requested"
               /\ audit'[k].entity_id = last'.inv
               /\ audit'[k].payload.notes \in Notes

\* C21: request_changes succeeds only from PENDING_CARRIER_REVIEW: it moves the
\* invoice to REVIEW_REQUIRED and appends an invoice.changes_requested event
\* that carries the carrier notes; from any other status it answers conflict
\* and leaves the invoice status and the audit log as they were.
C21_RequestChanges == []C21Inv /\ [][C21Step]_vars

\* request-changes has been committed, and a second one now meets a conflict
C21_Witness ==
    /\ last.op = "request_changes"
    /\ invoices[last.inv].status = REVIEW_REQUIRED
    /\ \E k \in DOMAIN audit : audit[k].event_type = "invoice.changes_requested"
    /\ \E u \in OwnCarriers(last.inv) :
          request_invoice_changes(Session, u, last.inv, "note").resp = "conflict"

\* ── C22 ─────────────────────────────────────────────────────────────────────
\* what the export routes answer to a user of the invoice's carrier
ExportResults(i) ==
    {export_carrier_invoice(Session, u, i) : u \in OwnCarriers(i)}
    \cup {export_invoice(Session, u, i) : u \in OwnCarriers(i)}

\* r exports invoice i, and an export after it is rejected with the invoice
\* left EXPORTED
ExportedOnce(i, r) ==
    /\ r.resp = "ok"
    /\ r.d.invoices[i].status = EXPORTED
    /\ r.d.lines = lines
    /\ \A u \in OwnCarriers(i) :
          LET Rejected(again) == again.resp = "conflict" /\ again.commits = 0
          IN  /\ Rejected(export_carrier_invoice(After(r), u, i))
              /\ Rejected(export_invoice(After(r), u, i))

\* C22: export of an APPROVED invoice moves it to EXPORTED, after which a
\* second export is rejected; export from any other status answers conflict
\* and leaves the invoice status as it was.
C22_ExportOnlyFromApproved ==
    \A i \in InvoiceIds : \A r \in ExportResults(i) :
        IF invoices[i].status = APPROVED
        THEN ExportedOnce(i, r)
        ELSE r.resp = "conflict" /\ r.commits = 0 /\ r.d.invoices = invoices

\* ── C23 ─────────────────────────────────────────────────────────────────────
\* what respond answers to a user of the invoice's supplier
C23Inv ==
    \A e \in ExceptionIds : \A u \in OwnSuppliers(InvoiceOfException(e)) :
        LET i == InvoiceOfException(e)
            Answer(r) ==
                IF exceptions[e].status = "OPEN"
                THEN /\ r.resp = "ok"
                     /\ r.commits > 0
                     /\ r.d.exceptions[e].supplier_response = "text"
                     /\ r.d.exceptions[e].status = "SUPPLIER_RESPONDED"
                     /\ \A x \in ExceptionIds \ {e} : r.d.exceptions[x] = exceptions[x]
                     /\ r.d.invoices[i].status =
                            (IF invoices[i].status = REVIEW_REQUIRED
                             THEN SUPPLIER_RESPONDED ELSE invoices[i].status)
                ELSE /\ r.resp = "conflict"
                     /\ r.commits = 0
                     /\ r.d.exceptions = exceptions
                     /\ r.d.invoices = invoices
        IN  Answer(respond_to_exception(Session, u, e, "text"))

\* a committed response found its exception OPEN
C23Step ==
    (Committed /\ last'.op = "respond") =>
        /\ exceptions[last'.exc].status = "OPEN"
        /\ exceptions'[last'.exc].status = "SUPPLIER_RESPONDED"
        /\ exceptions'[last'.exc].supplier_response # NULL
        /\ invoices'[last'.inv].status =
               (IF invoices[last'.inv].status = REVIEW_REQUIRED
                THEN SUPPLIER_RESPONDED ELSE invoices[last'.inv].status)

\* C23: respond_to_exception succeeds only on an OPEN exception: it stores the
\* response, sets the exception to SUPPLIER_RESPONDED and moves the invoice to
\* SUPPLIER_RESPONDED only from REVIEW_REQUIRED; on an exception in any other
\* status it answers conflict and changes neither exception nor invoice.
C23_RespondOnlyWhenOpen == []C23Inv /\ [][C23Step]_vars

\* a response was committed on an invoice that was not in REVIEW_REQUIRED, and
\* a second response to the same exception now meets a conflict
C23_Witness ==
    /\ last.op = "respond"
    /\ invoices[last.inv].status = PENDING_CARRIER_REVIEW
    /\ exceptions[last.exc].status = "SUPPLIER_RESPONDED"
    /\ \E u \in OwnSuppliers(last.inv) :
          respond_to_exception(Session, u, last.exc, "text").resp = "conflict"

\* ── C24 ─────────────────────────────────────────────────────────────────────
\* the line state machine: PENDING -> CLASSIFIED -> (VALIDATED | EXCEPTION) ->
\* (OVERRIDE | RESOLVED | APPROVED | DISPUTED | DENIED)
LineTransitions ==
    {<<"PENDING", "CLASSIFIED">>, <<"CLASSIFIED", "VALIDATED">>,
     <<"CLASSIFIED", "EXCEPTION">>}
    \cup ({"VALIDATED", "EXCEPTION"}
          \X {"OVERRIDE", "RESOLVED", "APPROVED", "DISPUTED", "DENIED"})
LineStages == {"PENDING", "CLASSIFIED", "VALIDATED", "EXCEPTION"}
LineTerminal == {"APPROVED", "DENIED"}

FailFindings(l) ==
    {v \in DOMAIN vresults' :
        vresults'[v].line_item_id = l /\ vresults'[v].status = "FAIL"}

\* line l has a CLASSIFICATION finding that failed, with its exception OPEN
ClassificationFailed(l) ==
    \E v \in FailFindings(l) :
        /\ vresults'[v].validation_type = "CLASSIFICATION"
        /\ \E e \in DOMAIN exceptions' :
               /\ exceptions'[e].validation_result_id = v
               /\ exceptions'[e].line_item_id = l
               /\ exceptions'[e].status = "OPEN"

\* C25: after a pipeline run, each line of the run without a taxonomy code is
\* in EXCEPTION and has a failed CLASSIFICATION finding with an OPEN exception,
\* also when classification raised an error; each line with a taxonomy code is
\* in EXCEPTION when it has a FAIL finding and VALIDATED otherwise.
C25_LineStatusFollowsFindings ==
    [][ParsedRun =>
          \A l \in NewLines :
              IF lines'[l].taxonomy_code = NULL
              THEN lines'[l].status = "EXCEPTION" /\ ClassificationFailed(l)
              ELSE lines'[l].status =
                       (IF FailFindings(l) # {} THEN "EXCEPTION" ELSE "VALIDATED")]_vars

\* ════════════════════════════════════════════════════════════════════════════
\* The classifier applied to stored rule tables
\* ════════════════════════════════════════════════════════════════════════════
\* rows of a stored rule table
MaxRules == 2

C_LODGE == "lodge-01"

\* the taxonomy code a stored rule of the given match type assigns
RuleTaxonomy ==
    [exact_code |-> "IME.PHY_EXAM.PROF_FEE",
     regex_pattern |-> "IME.PHY_EXAM.TRAVEL_TRANSPORT",
     keyword_set |-> "IME.PHY_EXAM.TRAVEL_LODGING"]

MatchTypes == DOMAIN RuleTaxonomy

\* a MappingRule row; an exact_code rule holds a code, the others a phrase
StoredRule(supplier_id, match_type, weight, effective_to) ==
    [supplier_id |-> supplier_id, match_type |-> match_type,
     match_pattern |-> IF match_type = "exact_code" THEN C_LODGE ELSE D_LODGE,
     taxonomy_code |-> RuleTaxonomy[match_type],
     billing_component |-> "PROF_FEE",
     confidence_weight |-> weight, confidence_label |-> WeightLabel(weight),
     effective_to |-> effective_to]

StoredRules ==
    {StoredRule(s, m, w, e) :
        s \in {"s1", NULL}, m \in MatchTypes, w \in {70, 90}, e \in {NONE, 0}}

RuleTables == UNION {[1..n -> StoredRules] : n \in 0..MaxRules}

InitClassify ==
    /\ invoices = << >>
    /\ versions = << >>
    /\ lines = << >>
    /\ vresults = << >>
    /\ exceptions = << >>
    /\ rules \in RuleTables
    /\ audit = << >>
    /\ now = 0
    /\ last = Request("init", NULL, 0, 0, 0, "ok", << >>)
    /\ inflight = << >>
    /\ call = << >>

\* Classifier(db).classify(description, code, supplier_id)
Classify ==
    \E desc \in {D_LODGE, D_XYZ}, code \in {C_LODGE, NULL}, supplier_id \in Suppliers :
        /\ call' = [fn |-> "classify", desc |-> desc, code |-> code,
                    supplier_id |-> supplier_id,
                    out |-> classify(rules, desc, code, supplier_id, now)]
        /\ UNCHANGED <<store, now, last, inflight>>

SpecClassify == InitClassify /\ [][Classify]_vars

\* effective rows of the given scope that match the input of the call
MatchingRules(scope) ==
    {k \in DOMAIN rules :
        /\ (rules[k].effective_to = NONE \/ rules[k].effective_to > now)
        /\ rules[k].supplier_id = scope
        /\ _rule_matches(rules[k], call.desc, call.code)}

ClassifyCalled == call # << >> /\ call.fn = "classify"

\* C26: the classifier's sources have strict precedence: when a rule of the
\* supplier matches, the result is a rule of the supplier whatever the weights
\* of the matching global rules; otherwise, when a global rule matches, the
\* result is a global rule; otherwise it is the best built-in rule; and when
\* nothing matches it is UNRECOGNIZED with weight 0 and no taxonomy code.
C26_SourcePrecedence ==
    ClassifyCalled =>
        LET own == MatchingRules(call.supplier_id)
            global == MatchingRules(NULL)
            builtin == {k \in DOMAIN BUILTIN_RULES : BuiltinMatches(BUILTIN_RULES[k], call.desc)}
        IN  IF own # {} THEN call.out.matched_rule_id \in own
            ELSE IF global # {} THEN call.out.matched_rule_id \in global
            ELSE IF builtin # {}
                 THEN /\ call.out.matched_rule_id = NONE
                      /\ \E k \in builtin :
                            call.out.taxonomy_code = BUILTIN_RULES[k].taxonomy_code
                 ELSE /\ call.out.confidence = "UNRECOGNIZED"
                      /\ call.out.confidence_weight = 0
                      /\ call.out.taxonomy_code = NULL

\* the part of C26 that does not involve global rules
C26_SupplierRulesFirst ==
    ClassifyCalled /\ MatchingRules(NULL) = {} => C26_SourcePrecedence

\* exact_code > regex_pattern > keyword_set
Specificity == [exact_code |-> 3, regex_pattern |-> 2, keyword_set |-> 1]

\* the stored rule the call returned, and the matching rules of its source
ReturnedRule == rules[call.out.matched_rule_id]
SourceRules == MatchingRules(ReturnedRule.supplier_id)

\* the built-in rules that match the description of the call
BuiltinMatching ==
    {k \in DOMAIN BUILTIN_RULES : BuiltinMatches(BUILTIN_RULES[k], call.desc)}

\* the returned rule has the greatest weight among the matching rules of the
\* source it comes from
C30_MaxWeight ==
    ClassifyCalled =>
        IF call.out.matched_rule_id # NONE
        THEN \A j \in SourceRules :
                ReturnedRule.confidence_weight >= rules[j].confidence_weight
        ELSE \A j \in BuiltinMatching :
                call.out.confidence_weight >= BUILTIN_RULES[j].weight

\* among matching rules of the greatest weight the most specific is returned
C30_TieBySpecificity ==
    ClassifyCalled =>
        IF call.out.matched_rule_id # NONE
        THEN \A j \in SourceRules :
                rules[j].confidence_weight = ReturnedRule.confidence_weight
                    => Specificity[ReturnedRule.match_type] >= Specificity[rules[j].match_type]
        ELSE \A j \in BuiltinMatching :
                BUILTIN_RULES[j].weight = call.out.confidence_weight
                    => Specificity[call.out.match_type] >= Specificity[BUILTIN_RULES[j].match_type]

\* the same rules stored in another order give the same classification
C30_OrderIndependent ==
    ClassifyCalled =>
        \A p \in Permutations(DOMAIN rules) :
            LET Same(other) ==
                    /\ other.taxonomy_code = call.out.taxonomy_code
                    /\ other.match_type = call.out.match_type
                    /\ other.confidence_weight = call.out.confidence_weight
            IN  Same(classify([k \in DOMAIN rules |-> rules[p[k]]],
                              call.desc, call.code, call.supplier_id, now))

\* C30: within the source that supplies the classification the returned rule
\* has the greatest confidence_weight of the matching rules; among matching
\* rules of equal weight the most specific match type (exact_code, then
\* regex_pattern, then keyword_set) is returned; and the classification does
\* not depend on the order in which the rules are stored.
C30_BestWithinSource ==
    C30_MaxWeight /\ C30_TieBySpecificity /\ C30_OrderIndependent

\* the rules following supersedes_rule_id from rule k, k first; n bounds the walk
RECURSIVE SupersedesChain(_, _, _)
SupersedesChain(rs, k, n) ==
    IF k = NONE \/ k \notin DOMAIN rs \/ n = 0 THEN << >>
    ELSE <<k>> \o SupersedesChain(rs, rs[k].supersedes_rule_id, n - 1)

\* the rules of one key: supplier scope, pattern and match type
RulesOfKey(rs, supplier_id, pattern) ==
    {k \in DOMAIN rs :
        /\ rs[k].supplier_id = supplier_id
        /\ rs[k].match_pattern = pattern
        /\ rs[k].match_type = "keyword_set"}

\* one active head whose chain is the whole key, once each
SingleChain(rs, key) ==
    LET active == {k \in key : rs[k].effective_to = NONE}
        Walk(chain) ==
            /\ {chain[n] : n \in DOMAIN chain} = key
            /\ Len(chain) = Cardinality(key)
            /\ rs[chain[1]].version = Len(chain)
            /\ rs[chain[1]].confirmed_by = "CARRIER_OVERRIDE"
            /\ rs[chain[1]].confidence_weight = 100
            /\ rs[chain[1]].confidence_label = "HIGH"
    IN  /\ Cardinality(active) = 1
        /\ \A h \in active : Walk(SupersedesChain(rs, h, Len(rs) + 1))

PersistentScopes == {"this_supplier", "global"}

\* C27: a mapping override of persistent scope leaves exactly one active rule
\* of its key (supplier scope, pattern, match type); following
\* supersedes_rule_id from it visits every earlier rule of the key once; its
\* version is the length of that chain; it is confirmed by CARRIER_OVERRIDE
\* with weight 1.0 and label HIGH; and the earlier rules differ from what they
\* were at most in effective_to.
C27_OverrideChain ==
    \A u \in CarrierAdmins, l \in LineIds, scope \in PersistentScopes :
        LET supplier_id == IF scope = "this_supplier"
                           THEN invoices[lines[l].invoice_id].supplier_id ELSE NULL
            Holds(r) ==
                /\ r.commits > 0
                /\ SingleChain(r.d.rules,
                               RulesOfKey(r.d.rules, supplier_id, lines[l].raw_description))
                /\ \A k \in DOMAIN rules :
                      [r.d.rules[k] EXCEPT !.effective_to = rules[k].effective_to] = rules[k]
        IN  Holds(override_mapping(Session, u, l, "IME.PHY_EXAM.PROF_FEE",
                                   "PROFESSIONAL_FEE", scope))

\* three nights of lodging billed at the contracted rate, where the rate card
\* allows one
F_UNITS == Csv(ALL_COLUMNS, << RawItem(1, D_LODGE, 60000, 300) >>)

\* the findings of line l in session d that failed
FailedOf(d, l) ==
    {v \in DOMAIN d.vresults :
        d.vresults[v].line_item_id = l /\ d.vresults[v].status = "FAIL"}

\* max_units x contracted_rate of the rate card of the line, in cents
CappedAmount(d, l) ==
    LET Cap(rc) ==
            IF rc = << >> \/ rc[1].max_units = NONE THEN NONE
            ELSE QuantizeCents(rc[1].max_units * rc[1].contracted_rate)
    IN  Cap(_find_rate_card(d.lines[l], d.invoices[d.lines[l].invoice_id].contract_id))

\* the expected amount of line l follows its findings
ExpectedFollowsFindings(d, l) ==
    LET line == d.lines[l]
        failed == FailedOf(d, l)
    IN  /\ (\E v \in failed : d.vresults[v].validation_type = "RATE")
               => \/ line.expected_amount # NONE /\ line.expected_amount < line.raw_amount
                  \/ line.expected_amount = CappedAmount(d, l) /\ CappedAmount(d, l) # NONE
        /\ failed = {} => line.expected_amount = line.raw_amount

\* the lines a run on the given file leaves with an expected amount that does
\* not follow their findings
RunExpectedAmiss(files, faulty) ==
    \E u \in SupplierUsers, i \in InvoiceIds, f \in files :
        \E x \in Faults(CSVParser_parse(f)) :
            LET Amiss(r) ==
                    /\ r.commits > 0
                    /\ \E l \in DOMAIN r.d.lines \ DOMAIN lines :
                           ~ExpectedFollowsFindings(r.d, l)
            IN  /\ faulty \/ (x.raising = {} /\ ~x.crash)
                /\ Amiss(upload_invoice_file(Session, Session, u, i, f, x.raising, x.crash))

\* C28: after a pipeline run, a line with a failed RATE finding has an expected
\* amount below its billed amount or equal to max_units x contracted_rate of
\* its rate card, and a line with no failed finding has its billed amount as
\* expected amount.
C28_ExpectedAmount == ~RunExpectedAmiss(Files \cup {F_UNITS}, TRUE)

\* the same for the run of the lodging file over its unit maximum alone
C28_MaxUnitsCapsPayable == ~RunExpectedAmiss({F_UNITS}, FALSE)

\* the same for lines billed over quantity x rate: the files of the model
\* whose lines have a rate card and no unit maximum
C28_OverbilledLowersExpected == ~RunExpectedAmiss({F_UNDER, F_OVER}, FALSE)

\* ════════════════════════════════════════════════════════════════════════════
\* The rate validator applied to bounded quantities, rates and amounts
\* ════════════════════════════════════════════════════════════════════════════
\* quantities run to MaxHalfUnits half units, billed amounts to MaxBilled cents
MaxHalfUnits == 6
MaxBilled == 210

\* hundredths of a unit
Quantities == {50 * q : q \in 0..MaxHalfUnits}
\* thousandths of a dollar: $0.010, $0.130 and $0.670 a unit
Rates == {10, 130, 670}
BilledAmounts == 0..MaxBilled

\* a classified line item and a rate card, as far as the rate checks read them
RatedLine(taxonomy_code, quantity, billed) ==
    [raw_quantity |-> quantity, raw_amount |-> billed, taxonomy_code |-> taxonomy_code,
     billing_component |-> "PROF_FEE", service_date |-> NONE]
RateCardAt(rate) ==
    [id |-> 1, contracted_rate |-> rate, max_units |-> NONE, is_all_inclusive |-> FALSE]

\* RateValidator._check_amount(line_item, rate_card), applied once to the
\* inputs drawn
CheckAmount ==
    \E quantity \in Quantities, rate \in Rates, billed \in BilledAmounts :
        /\ call = << >>
        /\ call' = [fn |-> "_check_amount", quantity |-> quantity, rate |-> rate,
                    billed |-> billed,
                    out |-> _check_amount(RatedLine("IME.PHY_EXAM.PROF_FEE", quantity, billed),
                                          RateCardAt(rate))]
        /\ UNCHANGED <<store, now, last, inflight>>

\* RateValidator.validate(line_item, contract) against the rate cards of the
\* contract
ValidateRate ==
    \E k \in DOMAIN RateCards, quantity \in {100, 300}, c \in ContractIds :
      \E billed \in {RateCards[k].contracted_rate \div 10 + e : e \in {-3, 0, 3}} :
        /\ call = << >>
        /\ call' = [fn |-> "validate", quantity |-> quantity, billed |-> billed,
                    taxonomy_code |-> RateCards[k].taxonomy_code, contract_id |-> c,
                    out |-> RateValidate(
                                RatedLine(RateCards[k].taxonomy_code, quantity, billed), c)]
        /\ UNCHANGED <<store, now, last, inflight>>

NextRate == CheckAmount \/ ValidateRate

SpecRate == Init /\ [][NextRate]_vars

\* the amount findings among the findings of a validation: those that state
\* an expected amount
AmountFindings(out) == {k \in DOMAIN out : out[k].expected_value >= 0}

\* C29: with expected the product quantity x rate rounded to the cent, the
\* amount check answers PASS when billed and expected differ by at most 0.02,
\* FAIL with ACCEPT_REDUCTION, the expected and the billed amount when billed
\* exceeds expected by more than 0.02, and WARNING when billed is below
\* expected by more than 0.02; a validation for which a rate card applies
\* yields exactly one amount finding.
C29_AmountCheck ==
    /\ call # << >> /\ call.fn = "_check_amount" =>
          LET Answer(out, diff) ==
                  /\ 2 * Abs(1000 * out.expected_value - call.quantity * call.rate) <= 1000
                  /\ out.actual_value = call.billed
                  /\ Abs(diff) <= 2 => out.status = "PASS"
                  /\ diff > 2 => out.status = "FAIL" /\ out.required_action = "ACCEPT_REDUCTION"
                  /\ diff < -2 => out.status = "WARNING"
          IN  Answer(call.out, call.billed - call.out.expected_value)
    /\ call # << >> /\ call.fn = "validate" =>
          LET Card(rc) == rc # << >> => Cardinality(AmountFindings(call.out)) = 1
          IN  Card(_find_rate_card(
                       RatedLine(call.taxonomy_code, call.quantity, call.billed),
                       call.contract_id))

\* the amount check was applied to an amount three cents over a product that
\* falls half way between two cents
C29_Witness ==
    /\ call # << >> /\ call.fn = "_check_amount"
    /\ (call.quantity * call.rate) % 1000 = 500
    /\ call.billed = call.out.expected_value + 3
    /\ call.out.status = "FAIL"

\* a validation found a rate card and checked the amount against it
C29_WitnessValidate ==
    /\ call # << >> /\ call.fn = "validate"
    /\ AmountFindings(call.out) # {}

\* ════════════════════════════════════════════════════════════════════════════
\* Mapping-rule writes, entry points, audit order and the remaining lifecycle
\* properties
\* ════════════════════════════════════════════════════════════════════════════
\* C31: the stored rules never hold two active rules of one key (supplier
\* scope, pattern, match type) nor two rules that supersede the same rule,
\* also when overrides of persistent scope run concurrently.
C31_NoDestructiveRace ==
    \A a, b \in DOMAIN rules :
        a # b /\ rules[a].supplier_id = rules[b].supplier_id
              /\ rules[a].match_pattern = rules[b].match_pattern
              /\ rules[a].match_type = rules[b].match_type
        => /\ ~(rules[a].effective_to = NONE /\ rules[b].effective_to = NONE)
           /\ ~(rules[a].supersedes_rule_id # NONE
                /\ rules[a].supersedes_rule_id = rules[b].supersedes_rule_id)

\* no override request reaches the block that writes mapping rules
C31_NoRuleWritten ==
    /\ rules = << >>
    /\ \A u \in CarrierAdmins, l \in LineIds, scope \in PersistentScopes :
          override_mapping(Session, u, l, "IME.PHY_EXAM.PROF_FEE",
                           "PROFESSIONAL_FEE", scope).commits = 0

\* the two results leave the same rows and made a commit or not alike
SameOutcome(a, b) ==
    /\ (a.commits > 0) = (b.commits > 0)
    /\ a.resp = b.resp
    /\ a.d.invoices = b.d.invoices
    /\ a.d.lines = b.d.lines
    /\ a.d.vresults = b.d.vresults
    /\ a.d.exceptions = b.d.exceptions
    /\ a.d.audit = b.d.audit

\* C32: for an invoice with a stored file, the synchronous entry point given
\* the bytes of that file and the background entry point that loads them end
\* alike: the same invoice status, line items, validation results, exceptions
\* and audit events, when the file parses, when it does not, and when an
\* unhandled error ends the run.
C32_EntryPointsEquivalent ==
    \A i \in InvoiceIds :
        invoices[i].raw_file_path # << >> =>
            \A x \in Faults(StoredRows(i)) :
                SameOutcome(
                    process_invoice_sync(Session, i, invoices[i].raw_file_path[1],
                                         x.raising, x.crash),
                    process_invoice(Session, i, x.raising, x.crash))

\* the background entry point has processed a stored file that the
\* synchronous one had left in REVIEW_REQUIRED
C32_Witness ==
    /\ last.op = "process_invoice"
    /\ last.resp = "ok"
    /\ invoices[last.inv].raw_file_path # << >>
    /\ LinesOf(Session, last.inv) # {}

\* the values gen_random_uuid() may give the ids of two rows
RandomIdPairs == {<<1, 2>>, <<2, 1>>}

\* ORDER BY created_at, id places a row with the first timestamp and id before
\* a row with the second
SortsBefore(created_a, id_a, created_b, id_b) ==
    created_a < created_b \/ (created_a = created_b /\ id_a < id_b)

\* the audit rows of one entity
SameEntity(a, b) ==
    audit[a].entity_type = audit[b].entity_type /\ audit[a].entity_id = audit[b].entity_id

\* C33: for every entity, sorting its audit events by created_at, ties broken
\* by id, gives the order in which they were written, also for events written
\* in one transaction; so the created_at of the events of an invoice increase
\* strictly.
C33_AuditOrder ==
    \A a, b \in DOMAIN audit :
        a < b /\ SameEntity(a, b) =>
            \A ids \in RandomIdPairs :
                SortsBefore(audit[a].created_at, ids[1], audit[b].created_at, ids[2])

\* events of one entity written by different transactions sort in the order
\* they were written
C33_OrderAcrossTransactions ==
    \A a, b \in DOMAIN audit :
        a < b /\ SameEntity(a, b) => audit[a].created_at <= audit[b].created_at

\* the rule types GuidelineValidator dispatches on
KnownRuleTypes ==
    {"max_units", "requires_auth", "billing_increment", "bundling_prohibition",
     "cap_amount"}

\* the parameters of guideline g make its rule handler raise
HandlerRaises(g) ==
    \/ g.rule_type = "max_units" /\ g.max = NAN
    \/ g.rule_type = "billing_increment" /\ g.min_increment \in {0, NAN}
    \/ g.rule_type = "bundling_prohibition" /\ g.prohibited_components = NAN
    \/ g.rule_type = "cap_amount" /\ g.max_amount = NAN

\* the findings of guideline g on line l after the step
FindingsOfGuideline(l, g) ==
    {v \in DOMAIN vresults' :
        vresults'[v].line_item_id = l /\ vresults'[v].guideline_id = g.id}

F_NOQTY == Csv(REQUIRED_FIELDS, << RawItem(1, D_IME, 60000, NONE) >>)

\* the files stored with the invoices, and the one without optional columns
ParsedFiles ==
    {invoices[i].raw_file_path[1] :
        i \in {j \in InvoiceIds : invoices[j].raw_file_path # << >>}}
    \cup {F_NOQTY}

\* a missing optional column fails no row: the quantity of a row is 1 when
\* the header has no quantity column
C35_OptionalColumns ==
    \A file \in ParsedFiles :
        /\ detect_format(file) = "csv"
        /\ REQUIRED_FIELDS \subseteq file.columns
        /\ \A k \in DOMAIN file.rows : file.rows[k].raw_amount # NONE
        => LET Parsed(items) ==
                   /\ Len(items) = Len(file.rows)
                   /\ "quantity" \notin file.columns =>
                          \A k \in DOMAIN items : items[k].raw_quantity = 100
           IN  Parsed(CSVParser_parse(file))

\* C35: parsing a CSV whose header has no column for description, or none for
\* amount, fails with ParseError and yields no line items, and a missing
\* optional column fails nothing: the quantity defaults to 1.
C35_RequiredColumns ==
    /\ \A file \in ParsedFiles :
          detect_format(file) = "csv" /\ ~(REQUIRED_FIELDS \subseteq file.columns)
              => CSVParser_parse(file) = << >>
    /\ C35_OptionalColumns

\* the part of C35 about the amount column
C35_AmountColumnRequired ==
    \A file \in ParsedFiles :
        detect_format(file) = "csv" /\ "amount" \notin file.columns
            => CSVParser_parse(file) = << >>

\* the operations of the review workflow
WorkflowOps ==
    {"respond", "carrier_resolve", "admin_resolve", "request_changes",
     "carrier_approve", "admin_approve", "carrier_export", "admin_export"}

\* what a line item was billed as and classified to, and its expected amount
LineFacts(line) ==
    <<line.raw_description, line.raw_amount, line.raw_quantity, line.taxonomy_code,
      line.expected_amount>>

\* C36: a committed respond, resolve, request-changes, approve or export
\* leaves the validation results exactly as they were and changes no line's
\* raw_description, raw_amount, raw_quantity, taxonomy_code or
\* expected_amount; a pipeline run only appends validation results.
C36_ValidationResultsImmutable ==
    [][/\ Committed /\ last'.op \in WorkflowOps =>
             /\ vresults' = vresults
             /\ DOMAIN lines' = DOMAIN lines
             /\ \A l \in DOMAIN lines : LineFacts(lines'[l]) = LineFacts(lines[l])
       /\ Committed /\ last'.op \in PipelineOps =>
             /\ Len(vresults') >= Len(vresults)
             /\ SubSeq(vresults', 1, Len(vresults)) = vresults]_vars

\* an approval was committed on an invoice with a line billed over its
\* expected amount, which has a validation result
C36_Witness ==
    /\ last.op \in {"carrier_approve", "admin_approve"}
    /\ \E l \in LineIds :
          /\ lines[l].invoice_id = last.inv
          /\ lines[l].status = "APPROVED"
          /\ lines[l].expected_amount # lines[l].raw_amount
          /\ \E v \in DOMAIN vresults : vresults[v].line_item_id = l

\* the lines of invoice i filed under a version it has superseded
SupersededLines(i) ==
    {l \in LinesOf(Session, i) : lines[l].invoice_version # invoices[i].current_version}

\* C37: once an invoice was resubmitted, approval promotes and export emits
\* only the lines of its current version: no line of a superseded version is
\* APPROVED, and none is among the rows an export of the invoice writes.
C37_OnlyCurrentVersion ==
    \A i \in InvoiceIds :
        /\ \A l \in SupersededLines(i) : lines[l].status # "APPROVED"
        /\ \A r \in ExportResults(i) :
              r.resp = "ok" => approved_lines(Session, i) \cap SupersededLines(i) = {}

\* as long as no approval was committed, the lines of superseded versions
\* keep the status their own run gave them
C37_SupersededUntouchedBeforeApproval ==
    \A i \in InvoiceIds :
        invoices[i].status \notin {APPROVED, EXPORTED} =>
            \A l \in SupersededLines(i) : lines[l].status \in {"VALIDATED", "EXCEPTION"}

\* C38: whenever an invoice is APPROVED or EXPORTED, every exception attached
\* to one of its lines is RESOLVED or WAIVED, whichever approve route was used
\* and whatever responses came before.
C38_ApprovedMeansSettled ==
    \A i \in InvoiceIds :
        invoices[i].status \in {APPROVED, EXPORTED} =>
            \A e \in ExceptionsOf(Session, i) : exceptions[e].status \in {"RESOLVED", "WAIVED"}

\* the part that holds: the carrier approve route leaves no exception of the
\* invoice OPEN
C38_CarrierApproveLeavesNoneOpen ==
    [][(Committed /\ last'.op = "carrier_approve") =>
          \A e \in DOMAIN exceptions' :
              lines'[exceptions'[e].line_item_id].invoice_id = last'.inv =>
                  exceptions'[e].status # "OPEN"]_vars

\* the carrier approve route alone: an accepted approval would leave every
\* exception of the invoice RESOLVED or WAIVED
C38_CarrierRouteSettles ==
    \A i \in InvoiceIds : \A u \in OwnCarriers(i) :
        LET AllSettled(r) ==
                r.resp = "ok" =>
                    \A e \in ExceptionsOf(Session, i) :
                        r.d.exceptions[e].status \in {"RESOLVED", "WAIVED"}
        IN  AllSettled(approve_carrier_invoice(Session, u, i, "note"))

\* ── C39 ─────────────────────────────────────────────────────────────────────
\* every request on invoice i, its lines or its exceptions, with every input
\* and every fault of the model
RequestResults(d, i) ==
    {upload_invoice_file(d, d, u, i, f, x.raising, x.crash) :
         u \in SupplierUsers, f \in Files,
         x \in {[raising |-> {}, crash |-> FALSE], [raising |-> {}, crash |-> TRUE],
                [raising |-> {1}, crash |-> FALSE]}}
    \cup {resubmit_invoice(d, u, i, f, x.raising, x.crash) :
         u \in SupplierUsers, f \in Files,
         x \in {[raising |-> {}, crash |-> FALSE], [raising |-> {}, crash |-> TRUE],
                [raising |-> {1}, crash |-> FALSE]}}
    \cup {respond_to_exception(d, u, e, "response") :
             u \in SupplierUsers, e \in ExceptionsOf(d, i)}
    \cup {resolve_carrier_exception(d, u, e, a, "note") :
             u \in CarrierAdmins, e \in ExceptionsOf(d, i), a \in ActionInputs}
    \cup {resolve_exception(d, u, e, a, "note") :
             u \in CarrierAdmins, e \in ExceptionsOf(d, i), a \in ActionInputs}
    \cup {override_mapping(d, u, l, "IME.PHY_EXAM.PROF_FEE", "PROFESSIONAL_FEE", scope) :
             u \in CarrierAdmins, l \in LinesOf(d, i), scope \in OverrideScopes}
    \cup {request_invoice_changes(d, u, i, "note") : u \in CarrierAdmins}
    \cup {approve_carrier_invoice(d, u, i, "note") : u \in CarrierAdmins}
    \cup {approve_invoice(d, u, i, ids) :
             u \in CarrierAdmins, ids \in {{}} \cup {{l} : l \in LinesOf(d, i)}}
    \cup {export_carrier_invoice(d, u, i) : u \in CarrierAdmins}
    \cup {export_invoice(d, u, i) : u \in CarrierAdmins}

\* no request moves invoice i out of the status it has in d
Stuck(d, i) ==
    \A r \in RequestResults(d, i) : r.d.invoices[i].status = d.invoices[i].status

\* C39: no dead ends: every invoice in a status that is not terminal has a
\* sequence of requests that brings it to EXPORTED or WITHDRAWN, so in no
\* reachable state is it in a status no request moves it out of.
C39_NoDeadEnd ==
    \A i \in InvoiceIds : invoices[i].status \notin TERMINAL => ~Stuck(Session, i)

\* a stuck invoice stays stuck: whatever request is accepted on it, its lines
\* or its exceptions, no request moves it afterwards either
C39_StuckForGood ==
    \A i \in InvoiceIds :
        (invoices[i].status \notin TERMINAL /\ Stuck(Session, i)) =>
            \A r \in RequestResults(Session, i) : r.commits > 0 => Stuck(After(r), i)

\* the statuses the stuck invoices have: SUBMITTED, SUPPLIER_RESPONDED, or
\* APPROVED without an APPROVED line
C39_WhereStuck ==
    \A i \in InvoiceIds :
        (invoices[i].status \notin TERMINAL /\ Stuck(Session, i)) =>
            \/ invoices[i].status \in {SUBMITTED, SUPPLIER_RESPONDED}
            \/ invoices[i].status = APPROVED /\ approved_lines(Session, i) = {}

\* from the other statuses the way to EXPORTED is open: an approvable invoice
\* is exported after a carrier approval, and an invoice awaiting a file after
\* the upload or resubmission of a clean file and a carrier approval
C39_PathToExport ==
    \A i \in InvoiceIds : \A s \in OwnSuppliers(i), c \in OwnCarriers(i) :
        LET Exported(d) == export_carrier_invoice(d, c, i).d.invoices[i].status = EXPORTED
            Approved(d) == Exported(After(approve_carrier_invoice(d, c, i, "note")))
        IN  /\ (invoices[i].status = APPROVED /\ approved_lines(Session, i) # {}) =>
                    Exported(Session)
            /\ invoices[i].status \in {PENDING_CARRIER_REVIEW, CARRIER_REVIEWING} =>
                    Approved(Session)
            /\ invoices[i].status = DRAFT =>
                    \E f \in Files :
                        Approved(After(upload_invoice_file(Session, Session, s, i, f, {}, FALSE)))
            /\ invoices[i].status = REVIEW_REQUIRED =>
                    \E f \in Files :
                        Approved(After(resubmit_invoice(Session, s, i, f, {}, FALSE)))

\* ── C40 ─────────────────────────────────────────────────────────────────────
\* the invoice of d whose supplier is not the supplier of its contract
ForeignContract(d) ==
    {i \in DOMAIN d.invoices :
        d.invoices[i].supplier_id # Contracts[d.invoices[i].contract_id].supplier_id}

\* C40: every invoice has the supplier of its contract: a create_invoice
\* request of a supplier user that names a contract of another supplier is
\* rejected and creates no invoice.
C40_InvoiceSupplierOwnsContract ==
    /\ ForeignContract(Session) = {}
    /\ \A u \in SupplierUsers, c \in ContractIds :
           LET Owned(r) ==
                   IF Contracts[c].supplier_id = Users[u].supplier_id
                   THEN ForeignContract(r.d) = {}
                   ELSE r.commits = 0 /\ r.d.invoices = invoices
           IN  Owned(create_invoice(Session, u, c))

\* with the supplier's own contract the created invoice has the supplier of
\* its contract
C40_OwnContractKept ==
    \A u \in SupplierUsers, c \in ContractIds :
        Contracts[c].supplier_id = Users[u].supplier_id =>
            ForeignContract(create_invoice(Session, u, c).d) = {}

\* an invoice created on another supplier's contract is run against that
\* contract: its upload is accepted and its lines are validated
C40_ForeignContractIsValidated ==
    \A u \in SupplierUsers, c \in ContractIds :
        (invoices = << >> /\ Contracts[c].supplier_id # Users[u].supplier_id) =>
            LET Run(d) == upload_invoice_file(d, d, u, 1, F_UNDER, {}, FALSE)
            IN  /\ Run(After(create_invoice(Session, u, c))).resp = "ok"
                /\ LinesOf(Run(After(create_invoice(Session, u, c))).d, 1) # {}

====
